---- MODULE Spec2Model ----
(***************************************************************************)
(* Movie pipeline of the repository: definition loading, validation,       *)
(* output layout, renderer and encoder invocation, and the three command   *)
(* line entry points (build_movie, batch_render, export_final).            *)
(*                                                                         *)
(* A path is a sequence of components, a component a sequence of string    *)
(* tokens: project_dir / "renders" / (name ++ "_temp.mp4") is              *)
(* <<..., <<"renders">>, <<name, "_temp.mp4">>>>.  A mapping (a Python     *)
(* dict) is a function whose domain is its key set.                        *)
(***************************************************************************)
EXTENDS Integers, Sequences, FiniteSets, TLC

\* ------------------------------------------------------------------ bounds
MaxScenes == 2
MaxBatchScenes == 1
MaxProjects == 2
MaxExitCode == 2
MaxFrame == 2
MaxVideos == 2
MaxCalls == 2
MaxDirectories == 2

\* --------------------------------------------------------- values and maps
\* an option that was not given (None, or the empty string: both are falsy)
Absent == ""
NoPath == <<>>
EmptyMap == <<>>
Has(map, key) == key \in DOMAIN map
\* dict.get(key, default)
Get(map, key, default) == IF key \in DOMAIN map THEN map[key] ELSE default
\* a.copy(); a.update(b)
Update(a, b) == [x \in (DOMAIN a) \cup (DOMAIN b) |-> IF x \in DOMAIN b THEN b[x] ELSE a[x]]

SeqsUpTo(S, n) == UNION {[1..m -> S] : m \in 0..n}
Range(s) == {s[x] : x \in DOMAIN s}

\* ---------------------------------------------------------- paths and disk
Cwd == <<>>
Join(p, s) == Append(p, <<s>>)
JoinName(p, tokens) == Append(p, tokens)
Parent(p) == IF Len(p) = 0 THEN p ELSE SubSeq(p, 1, Len(p) - 1)
Ancestors(p) == {SubSeq(p, 1, n) : n \in 0..Len(p)}

IsDir(disk, p) == p \in disk.dirs
IsFile(disk, p) == p \in DOMAIN disk.files
Exists(disk, p) == IsDir(disk, p) \/ IsFile(disk, p)

\* Path.mkdir(parents=True, exist_ok=True): existing directories are kept.
\* (No modelled world puts a regular file where a directory is asked for.)
Mkdir(disk, p) == [disk EXCEPT !.dirs = @ \cup Ancestors(p)]

EmptyFile == [kind |-> "empty"]
WriteFile(disk, p, content) == [disk EXCEPT !.files = (p :> content) @@ @]
\* Path.touch(): creates an empty file, keeps an existing one.
Touch(disk, p) == IF Exists(disk, p) THEN disk ELSE WriteFile(disk, p, EmptyFile)
\* Path.unlink(): FileNotFoundError when the file is absent.
UnlinkOk(disk, p) == IsFile(disk, p)
Unlink(disk, p) == [disk EXCEPT !.files = [q \in (DOMAIN @) \ {p} |-> @[q]]]
\* Path.rename(target): replaces the target.
Rename(disk, p, q) == Unlink(WriteFile(disk, q, disk.files[p]), p)

\* ------------------------------------------------- scene_builder.py: model
\* The parsed YAML document of a definition file.  parses = FALSE stands for
\* a file yaml.safe_load cannot turn into a mapping with well-formed scenes.
Malformed == [parses |-> FALSE, movie |-> EmptyMap, render |-> EmptyMap,
              output |-> EmptyMap, scenes |-> <<>>]

Scene(name, blend_file, frame_range, config) ==
    [name |-> name, blend_file |-> blend_file,
     frame_start |-> frame_range[1], frame_end |-> frame_range[2],
     config |-> config]

_parse_scenes(project_dir, definition) ==
    [n \in DOMAIN definition.scenes |->
        Scene(definition.scenes[n].name,
              Join(project_dir, definition.scenes[n].blend_file),
              definition.scenes[n].frame_range,
              definition.scenes[n].config)]

\* MovieProject(definition_path): raises when the file is absent or malformed.
LoadOk(world, disk, definition_path) ==
    /\ IsFile(disk, definition_path)
    /\ definition_path \in DOMAIN world
    /\ world[definition_path].parses

MovieProject(world, definition_path) ==
    [definition_path |-> definition_path,
     project_dir |-> Parent(definition_path),
     definition |-> world[definition_path],
     scenes |-> _parse_scenes(Parent(definition_path), world[definition_path])]

movie_config(project) == project.definition.movie
\* A movie section that is a YAML scalar ("movie: Demo") is held under the
\* empty key: it is truthy, and movie_config.get raises AttributeError on it.
ScalarMovie == Absent :> "Demo"
MovieGetRaises(project) == Has(movie_config(project), Absent)
render_config_of(project) == project.definition.render
output_config(project) == project.definition.output

\* the first scene of that name, or NoScene
NoScene == [name |-> Absent]
get_scene(project, name) ==
    IF \E n \in DOMAIN project.scenes : project.scenes[n].name = name
    THEN project.scenes[CHOOSE n \in DOMAIN project.scenes :
            /\ project.scenes[n].name = name
            /\ \A m \in 1..(n - 1) : project.scenes[m].name # name]
    ELSE NoScene

DefaultFinalVideo == <<<<"renders">>, <<"final">>, <<"output.mp4">>>>
get_output_path(project) ==
    project.project_dir \o Get(output_config(project), "final_video", DefaultFinalVideo)

get_frames_dir(project, scene_name) ==
    IF scene_name # Absent
    THEN Join(Join(Join(project.project_dir, "renders"), "frames"), scene_name)
    ELSE Join(Join(project.project_dir, "renders"), "frames")

Gitkeep == ".gitkeep"

\* a variant that leaves the directory without its marker file
MakeKeptDir_NoMarker(disk, dir) == Mkdir(disk, dir)

\* one directory: mkdir(parents=True, exist_ok=True), then touch .gitkeep
MakeKeptDir(disk, dir) == Touch(Mkdir(disk, dir), Join(dir, Gitkeep))

RECURSIVE SetupFrames(_, _, _)
SetupFrames(disk, project, n) ==
    IF n > Len(project.scenes) THEN disk
    ELSE SetupFrames(MakeKeptDir(disk, get_frames_dir(project, project.scenes[n].name)),
                     project, n + 1)

\* a variant that creates the frame directories only
setup_output_directories_FramesOnly(disk, project) == SetupFrames(disk, project, 1)

setup_output_directories(disk, project) ==
    MakeKeptDir(SetupFrames(disk, project, 1), Parent(get_output_path(project)))

ErrMissingMovie == [msg |-> "Missing 'movie' section in definition", path |-> NoPath]
ErrNoScenes == [msg |-> "No scenes defined", path |-> NoPath]
ErrBlendNotFound(blend_path) == [msg |-> "Blend file not found: ", path |-> blend_path]

RECURSIVE BlendErrors(_, _, _)
BlendErrors(disk, scenes, n) ==
    IF n > Len(scenes) THEN <<>>
    ELSE (IF ~Exists(disk, scenes[n].blend_file)
          THEN <<ErrBlendNotFound(scenes[n].blend_file)>> ELSE <<>>)
         \o BlendErrors(disk, scenes, n + 1)

\* a variant that checks the blend files before the required sections
validate_BlendsFirst(disk, project) ==
    BlendErrors(disk, project.scenes, 1)
    \o (IF movie_config(project) = EmptyMap THEN <<ErrMissingMovie>> ELSE <<>>)
    \o (IF Len(project.scenes) = 0 THEN <<ErrNoScenes>> ELSE <<>>)

validate(disk, project) ==
    (IF movie_config(project) = EmptyMap THEN <<ErrMissingMovie>> ELSE <<>>)
    \o (IF Len(project.scenes) = 0 THEN <<ErrNoScenes>> ELSE <<>>)
    \o BlendErrors(disk, project.scenes, 1)

\* ------------------------------------------------------ renderer.py: model
\* Configuration values are strings ("128", "CYCLES", "True").
Truthy(v) == v \notin {"", "0", "False"}

Directive(opt, val) == [opt |-> opt, val |-> val]

\* a variant that switches denoising on whenever the key is present
_build_render_script_DenoiseIfPresent(output_path, frame_start, frame_end, render_config) ==
    [frame_start |-> frame_start,
     frame_end |-> frame_end,
     filepath |-> output_path,
     settings |->
        (IF Has(render_config, "engine")
         THEN <<Directive("render.engine", render_config["engine"])>> ELSE <<>>)
     \o (IF Has(render_config, "samples")
         THEN <<Directive("cycles.samples", render_config["samples"])>> ELSE <<>>)
     \o (IF Has(render_config, "resolution_percentage")
         THEN <<Directive("render.resolution_percentage",
                          render_config["resolution_percentage"])>> ELSE <<>>)
     \o (IF Has(render_config, "denoising")
         THEN <<Directive("cycles.use_denoising", "True")>> ELSE <<>>)
     \o (IF Has(render_config, "device") /\ render_config["device"] = "GPU"
         THEN <<Directive("compute_device_type", "CUDA"),
                Directive("cycles.device", "GPU")>> ELSE <<>>)
     \o (IF Has(render_config, "format")
         THEN <<Directive("image_settings.file_format", render_config["format"])>>
         ELSE <<>>)]

_build_render_script(output_path, frame_start, frame_end, render_config) ==
    [frame_start |-> frame_start,
     frame_end |-> frame_end,
     filepath |-> output_path,
     settings |->
        (IF Has(render_config, "engine")
         THEN <<Directive("render.engine", render_config["engine"])>> ELSE <<>>)
     \o (IF Has(render_config, "samples")
         THEN <<Directive("cycles.samples", render_config["samples"])>> ELSE <<>>)
     \o (IF Has(render_config, "resolution_percentage")
         THEN <<Directive("render.resolution_percentage",
                          render_config["resolution_percentage"])>> ELSE <<>>)
     \o (IF Has(render_config, "denoising") /\ Truthy(render_config["denoising"])
         THEN <<Directive("cycles.use_denoising", "True")>> ELSE <<>>)
     \o (IF Has(render_config, "device") /\ render_config["device"] = "GPU"
         THEN <<Directive("compute_device_type", "CUDA"),
                Directive("cycles.device", "GPU")>> ELSE <<>>)
     \o (IF Has(render_config, "format")
         THEN <<Directive("image_settings.file_format", render_config["format"])>>
         ELSE <<>>)]

\* a variant without the existence check
RenderSceneRaises_Never(disk, blend_file) == FALSE

\* render_scene raises FileNotFoundError before building the command
RenderSceneRaises(disk, blend_file) == ~Exists(disk, blend_file)

\* the child process render_scene spawns
render_scene(blend_file, output_path, frame_start, frame_end, render_config) ==
    [tool |-> "blender",
     op |-> "render",
     background |-> TRUE,
     blend |-> blend_file,
     script |-> _build_render_script(output_path, frame_start, frame_end, render_config),
     render_anim |-> TRUE,
     output |-> output_path]

\* a variant whose range ends one frame late
render_frame_OneMore(blend_file, output_path, frame, render_config) ==
    render_scene(blend_file, output_path, frame, frame + 1, render_config)

render_frame(blend_file, output_path, frame, render_config) ==
    render_scene(blend_file, output_path, frame, frame, render_config)

\* The external renderer: on exit code 0 the frames of the inclusive range
\* the script sets are on disk under the script's file path.
RendererRun(disk, cmd, rc) ==
    IF rc = 0
    THEN WriteFile(disk, cmd.script.filepath,
                   [kind |-> "frames", first |-> cmd.script.frame_start,
                    last |-> cmd.script.frame_end])
    ELSE disk

\* render_presets.yaml: the document load_render_preset reads
RenderPresets == "draft" :> ("samples" :> "32" @@ "device" :> "GPU")
LoadRenderPresetRaises(preset_name) == preset_name \notin DOMAIN RenderPresets
load_render_preset(preset_name) == RenderPresets[preset_name]

\* --------------------------------------------------- compositing.py: model
_get_default_codec_config ==
    "codec" :> "libx264" @@ "preset" :> "medium" @@ "crf" :> "18"
    @@ "pixel_format" :> "yuv420p" @@ "audio_codec" :> "aac"
    @@ "audio_bitrate" :> "320k"

\* codec_config or self._get_default_codec_config()
CodecOrDefault(codec_config) ==
    IF codec_config = EmptyMap THEN _get_default_codec_config ELSE codec_config

Flag(flag, val) == [flag |-> flag, val |-> val]

\* the child process frames_to_video spawns
frames_to_video(frames_pattern, output_path, fps, start_number, codec_config, audio_path) ==
    LET config == CodecOrDefault(codec_config) IN
    [tool |-> "ffmpeg",
     op |-> "frames_to_video",
     framerate |-> fps,
     start_number |-> start_number,
     input |-> frames_pattern,
     audio |-> audio_path,
     flags |->
        (IF Has(config, "codec") THEN <<Flag("-c:v", config["codec"])>> ELSE <<>>)
     \o (IF Has(config, "preset") THEN <<Flag("-preset", config["preset"])>> ELSE <<>>)
     \o (IF Has(config, "crf") THEN <<Flag("-crf", config["crf"])>> ELSE <<>>)
     \o (IF Has(config, "pixel_format")
         THEN <<Flag("-pix_fmt", config["pixel_format"])>> ELSE <<>>)
     \o (IF audio_path # NoPath /\ Has(config, "audio_codec")
         THEN <<Flag("-c:a", config["audio_codec"])>>
              \o (IF Has(config, "audio_bitrate")
                  THEN <<Flag("-b:a", config["audio_bitrate"])>> ELSE <<>>)
         ELSE <<>>),
     output |-> output_path]

ConcatListName == "concat_list.txt"
concat_file(output_path) == Join(Parent(output_path), ConcatListName)

\* a variant that lists the videos last to first
ConcatManifest_Reversed(video_paths) ==
    [kind |-> "manifest",
     lines |-> [n \in 1..Len(video_paths) |->
                  [directive |-> "file", path |-> video_paths[Len(video_paths) + 1 - n]]]]

\* the manifest concatenate_videos writes: one "file '<path>'" line per video
ConcatManifest(video_paths) ==
    [kind |-> "manifest",
     lines |-> [n \in 1..Len(video_paths) |-> [directive |-> "file", path |-> video_paths[n]]]]

\* the child process concatenate_videos spawns
concatenate_videos(video_paths, output_path, codec_config) ==
    LET config == CodecOrDefault(codec_config) IN
    [tool |-> "ffmpeg",
     op |-> "concat",
     input |-> concat_file(output_path),
     flags |-> (IF Has(config, "codec") THEN <<Flag("-c:v", config["codec"])>> ELSE <<>>),
     output |-> output_path]

\* the child process add_audio spawns
add_audio(video_path, audio_path, output_path, audio_offset) ==
    [tool |-> "ffmpeg",
     op |-> "add_audio",
     input |-> video_path,
     itsoffset |-> audio_offset,
     audio |-> audio_path,
     flags |-> <<Flag("-c:v", "copy"), Flag("-c:a", "aac")>>,
     output |-> output_path]

\* The external encoder.  A video file is the sequence of its clips (one per
\* encoded frame sequence, in playing order) and its audio track.
Video(clips, audio) == [kind |-> "video", clips |-> clips, audio |-> audio]
IsVideo(disk, p) == IsFile(disk, p) /\ disk.files[p].kind = "video"

RECURSIVE ClipsOf(_, _, _)
ClipsOf(disk, lines, n) ==
    IF n > Len(lines) THEN <<>>
    ELSE disk.files[lines[n].path].clips \o ClipsOf(disk, lines, n + 1)

\* exit code 0 needs the inputs the command reads from disk
EncoderCanSucceed(disk, cmd) ==
    CASE cmd.op = "concat" ->
            /\ IsFile(disk, cmd.input)
            /\ Len(disk.files[cmd.input].lines) > 0
            /\ \A n \in DOMAIN disk.files[cmd.input].lines :
                    IsVideo(disk, disk.files[cmd.input].lines[n].path)
      [] cmd.op = "add_audio" -> IsVideo(disk, cmd.input)
      [] OTHER -> TRUE

EncoderRun(disk, cmd, rc) ==
    IF rc # 0 THEN disk
    ELSE CASE cmd.op = "frames_to_video" ->
                WriteFile(disk, cmd.output,
                    Video(<<[frames |-> cmd.input, start |-> cmd.start_number,
                             fps |-> cmd.framerate]>>, cmd.audio))
           [] cmd.op = "concat" ->
                WriteFile(disk, cmd.output,
                    Video(ClipsOf(disk, disk.files[cmd.input].lines, 1), NoPath))
           [] OTHER ->
                WriteFile(disk, cmd.output,
                    Video(disk.files[cmd.input].clips, cmd.audio))

\* export_settings.yaml: the document load_export_preset reads
ExportSettings ==
    [video_codecs |-> "h264" :> ("codec" :> "libx264" @@ "crf" :> "18"),
     audio |-> "codec" :> "aac" @@ "bitrate" :> "192k"]
LoadExportPresetRaises(codec_name) == codec_name \notin DOMAIN ExportSettings.video_codecs
load_export_preset(codec_name) ==
    Update(ExportSettings.video_codecs[codec_name],
           "audio_codec" :> Get(ExportSettings.audio, "codec", "aac")
           @@ "audio_bitrate" :> Get(ExportSettings.audio, "bitrate", "320k"))

\* ------------------------------------------------------------------ inputs
DefinitionName == "definition.yaml"
PresentBlend == "present.blend"
AbsentBlend == "absent.blend"
SceneNames == {"a", "b"}
FrameRanges == {<<1, MaxFrame>>}

DefaultFps == "24"
MovieMaps == {EmptyMap, "title" :> "Demo" @@ "fps" :> "30"}
RenderMaps == {EmptyMap, "samples" :> "128" @@ "engine" :> "CYCLES"}
SceneConfigs == {EmptyMap, "samples" :> "64"}
CustomFinalVideo == <<<<"out">>, <<"movie.mp4">>>>

SceneData(names, blends, configs) ==
    [name : names, blend_file : blends, frame_range : FrameRanges, config : configs]

\* the well-formed documents over the given scene sequences and output
\* sections, and Malformed
Documents(scene_seqs, outputs) ==
    {Malformed} \cup
    [parses : {TRUE}, movie : MovieMaps, render : RenderMaps, output : outputs,
     scenes : scene_seqs]
    \cup [parses : {TRUE}, movie : {ScalarMovie}, render : {EmptyMap}, output : {EmptyMap},
          scenes : {ss \in scene_seqs : Len(ss) = 1}]

\* the disk before a run: each project directory holds its definition and
\* one blend file
DiskWith(project_dirs, other_dirs) ==
    [dirs |-> UNION {Ancestors(d) : d \in project_dirs \cup other_dirs} \cup {Cwd},
     files |-> [f \in {Join(d, DefinitionName) : d \in project_dirs}
                      \cup {Join(d, PresentBlend) : d \in project_dirs} |->
                    IF f[Len(f)] = <<DefinitionName>>
                    THEN [kind |-> "definition"] ELSE [kind |-> "blend"]]]

\* ------------------------------------------------------------------- state
VARIABLES
    entry,                  \* which entry point runs
    args,                   \* the parsed command line
    disk,                   \* the file system: [dirs, files]
    disk0,                  \* the file system when the run started
    pc,                     \* position in main
    definitions,            \* batch: the discovered definition paths
    i,                      \* batch: 1-based index of the current definition
    project,                \* the loaded MovieProject
    errors,                 \* the list validate returned
    render_config_override, \* batch: the loaded preset
    render_config,          \* the config handed to render_scene
    scenes_to_render,       \* build: the scenes selected
    k,                      \* index of the current scene
    failed_projects,        \* batch: (definition_path, reason) pairs
    successful_projects,    \* batch: definition paths
    temp_videos,            \* export: per-scene temporary videos
    codec_config,           \* export: the loaded codec preset
    output_path,            \* export: the final output path
    result,                 \* the last child exit code
    exit_code,              \* what main returned (NoExit while running)
    uncaught,               \* an exception escaped main
    spawned,                \* history: the child processes spawned, in order
    last_spawn,             \* history: the last child process in full
    attempted,              \* history: the definitions a load was attempted for,
                            \*   each with what became of it
    raised,                 \* history: the exceptions raised below main, in order
    last_call               \* library harness: the last call and its arguments

vars == <<entry, args, disk, disk0, pc, definitions, i, project, errors,
          render_config_override, render_config, scenes_to_render, k,
          failed_projects, successful_projects, temp_videos, codec_config,
          output_path, result, exit_code, uncaught, spawned, last_spawn, attempted,
          raised, last_call>>

NoExit == -1
NoProject == [definition_path |-> NoPath, project_dir |-> NoPath,
              definition |-> Malformed, scenes |-> <<>>]
NoCall == [fn |-> Absent]
NoSpawn == [cmd |-> [tool |-> Absent, op |-> Absent], rc |-> NoExit]
ExitCodes == 0..MaxExitCode

Args(preset, continue_on_error, directories, definition, scene, dry_run, codec, audio, output) ==
    [preset |-> preset, continue_on_error |-> continue_on_error,
     directories |-> directories, definition |-> definition, scene |-> scene,
     dry_run |-> dry_run, codec |-> codec, audio |-> audio, output |-> output]

PresetArgs == {Absent, "draft", "missing"}

InitLocals ==
    /\ definitions = <<>>
    /\ i = 0
    /\ project = NoProject
    /\ errors = <<>>
    /\ render_config_override = EmptyMap
    /\ render_config = EmptyMap
    /\ scenes_to_render = <<>>
    /\ k = 0
    /\ failed_projects = <<>>
    /\ successful_projects = <<>>
    /\ temp_videos = <<>>
    /\ codec_config = EmptyMap
    /\ output_path = NoPath
    /\ result = NoExit
    /\ exit_code = NoExit
    /\ uncaught = FALSE
    /\ raised = <<>>
    /\ spawned = <<>>
    /\ last_spawn = NoSpawn
    /\ attempted = <<>>
    /\ last_call = NoCall

\* history of a spawn: the command in short, and in full
Spawn(cmd, rc, proj, scene) ==
    /\ spawned' = Append(spawned, [tool |-> cmd.tool, op |-> cmd.op, project |-> proj,
                                   scene |-> scene, output |-> cmd.output, rc |-> rc])
    /\ last_spawn' = [cmd |-> cmd, rc |-> rc]
    /\ result' = rc

\* history of an exception: raised when cond holds
Raises(cond, exc) == raised' = IF cond THEN Append(raised, exc) ELSE raised

\* ------------------------------------------------- batch_render.py: model
\* every ordering of a set (Path.glob yields directory entries in any order)
Orderings(S) == {s \in [1..Cardinality(S) -> S] : Range(s) = S}

\* dir_path.glob("*/definition.yaml")
GlobDefinitions(d, dir_path) ==
    {Join(sub, DefinitionName) : sub \in
        {q \in d.dirs : Len(q) = Len(dir_path) + 1 /\ Parent(q) = dir_path
                        /\ IsFile(d, Join(q, DefinitionName))}}

\* a variant that searches the subdirectories in every case
FoundIn_Both(d, dir_path) ==
    IF ~Exists(d, dir_path) THEN {<<>>}
    ELSE {head \o tail :
            head \in (IF Exists(d, Join(dir_path, DefinitionName))
                      THEN {<<Join(dir_path, DefinitionName)>>} ELSE {<<>>}),
            tail \in Orderings(GlobDefinitions(d, dir_path))}

\* what one directory of the command line contributes: a set of possible lists
FoundIn(d, dir_path) ==
    IF ~Exists(d, dir_path) THEN {<<>>}
    ELSE IF Exists(d, Join(dir_path, DefinitionName))
         THEN {<<Join(dir_path, DefinitionName)>>}
         ELSE Orderings(GlobDefinitions(d, dir_path))

RECURSIVE find_movie_definitions(_, _, _)
find_movie_definitions(d, directories, n) ==
    IF n > Len(directories) THEN {<<>>}
    ELSE {head \o tail : head \in FoundIn(d, <<<<directories[n]>>>>),
                         tail \in find_movie_definitions(d, directories, n + 1)}

BatchScenes ==
    UNION {[1..m -> SceneData({"a"}, {PresentBlend, AbsentBlend}, SceneConfigs)] :
           m \in 0..MaxBatchScenes}
BatchDocuments == Documents(BatchScenes, {EmptyMap})
\* the documents of a batch over n discovered definitions: a batch of one
\* project also carries the longer scene lists of BuildScenes
BatchDocumentsFor(n) ==
    IF n = 1
    THEN Documents(UNION {[1..m -> SceneData({"a", "b"}, {PresentBlend, AbsentBlend},
                                             {EmptyMap})] : m \in 0..MaxScenes},
                   {EmptyMap}) \cup BatchDocuments
    ELSE BatchDocuments

\* the projects on disk of a batch run: n projects below d1, or d1 itself
BatchProjectDirs ==
    {{<<<<"d1">>, [x \in 1..m |-> "s"]>> : m \in 1..n} : n \in 0..MaxProjects}
    \cup {{<<<<"d1">>>>}}

InitBatch ==
    /\ entry = "batch"
    /\ \E preset \in PresetArgs, coe \in BOOLEAN :
          args = Args(preset, coe, <<"d1">>, NoPath, Absent, FALSE, Absent, NoPath, NoPath)
    /\ \E dirs \in BatchProjectDirs : disk = DiskWith(dirs, {<<<<"d1">>>>})
    /\ disk0 = disk
    /\ pc = "discover"
    /\ InitLocals

BatchDiscover ==
    /\ entry = "batch" /\ pc = "discover"
    /\ \E found \in find_movie_definitions(disk, args.directories, 1) :
          /\ definitions' = found
          /\ IF found = <<>>
             THEN exit_code' = 1 /\ pc' = "done"
             ELSE exit_code' = exit_code /\ pc' = "preset"
    /\ UNCHANGED <<entry, args, disk, disk0, i, project, errors,
                   render_config_override, render_config, scenes_to_render, k,
                   failed_projects, successful_projects, temp_videos, codec_config,
                   output_path, result, uncaught, spawned, last_spawn, attempted, last_call, raised>>

\* load_render_preset is called outside the try block: its error leaves main
BatchLoadPreset ==
    /\ entry = "batch" /\ pc = "preset"
    /\ IF args.preset # Absent /\ LoadRenderPresetRaises(args.preset)
       THEN /\ uncaught' = TRUE
            /\ exit_code' = 1
            /\ pc' = "done"
            /\ UNCHANGED <<render_config_override, i>>
       ELSE /\ render_config_override' =
                  IF args.preset # Absent THEN load_render_preset(args.preset) ELSE EmptyMap
            /\ i' = 1
            /\ pc' = "load"
            /\ UNCHANGED <<uncaught, exit_code>>
    /\ Raises(args.preset # Absent /\ LoadRenderPresetRaises(args.preset), "ValueError")
    /\ UNCHANGED <<entry, args, disk, disk0, definitions, project, errors,
                   render_config, scenes_to_render, k,
                   failed_projects, successful_projects, temp_videos, codec_config,
                   output_path, result, spawned, last_spawn, attempted, last_call>>

\* history: what became of the project being processed
Fate(fate) == attempted' = [attempted EXCEPT ![Len(attempted)].fate = fate]

\* a variant in which the failure is recorded and the batch always goes on
BatchFail_IgnoresFlag(reason) ==
    /\ failed_projects' = Append(failed_projects, <<definitions[i], reason>>)
    /\ exit_code' = exit_code /\ pc' = "load" /\ i' = i + 1

\* a variant that, told to go on, takes the failed project again
BatchFail_Retries(reason) ==
    /\ failed_projects' = Append(failed_projects, <<definitions[i], reason>>)
    /\ IF ~args.continue_on_error
       THEN exit_code' = 1 /\ pc' = "done" /\ i' = i
       ELSE exit_code' = exit_code /\ pc' = "load" /\ i' = i

\* the except branch of the loop body: record, then abort or go on
BatchFail(reason) ==
    /\ failed_projects' = Append(failed_projects, <<definitions[i], reason>>)
    /\ IF ~args.continue_on_error
       THEN exit_code' = 1 /\ pc' = "done" /\ i' = i
       ELSE exit_code' = exit_code /\ pc' = "load" /\ i' = i + 1

BatchLoadProject ==
    /\ entry = "batch" /\ pc = "load" /\ i <= Len(definitions)
    /\ \E doc \in BatchDocumentsFor(Len(definitions)) :
          IF LoadOk(definitions[i] :> doc, disk, definitions[i])
          THEN /\ project' = MovieProject(definitions[i] :> doc, definitions[i])
               /\ attempted' = Append(attempted, [definition |-> definitions[i],
                                                   fate |-> "loaded"])
               /\ pc' = "validate"
               /\ UNCHANGED <<failed_projects, exit_code, i>>
          ELSE /\ BatchFail("load")
               /\ attempted' = Append(attempted, [definition |-> definitions[i],
                                                   fate |-> "load_error"])
               /\ UNCHANGED project
    /\ Raises(attempted'[Len(attempted')].fate = "load_error", "LoadError")
    /\ UNCHANGED <<entry, args, disk, disk0, definitions, errors,
                   render_config_override, render_config, scenes_to_render, k,
                   successful_projects, temp_videos, codec_config,
                   output_path, result, uncaught, spawned, last_spawn, last_call>>

\* a variant that creates the output directories before validating
BatchValidate_AfterSetup ==
    /\ entry = "batch" /\ pc = "validate"
    /\ errors' = validate(disk, project)
    /\ IF errors' # <<>>
       THEN BatchFail("Validation failed") /\ Fate("invalid")
       ELSE pc' = "setup" /\ UNCHANGED <<failed_projects, exit_code, i, attempted>>
    /\ disk' = setup_output_directories(disk, project)
    /\ UNCHANGED <<entry, args, disk0, definitions, project,
                   render_config_override, render_config, scenes_to_render, k,
                   successful_projects, temp_videos, codec_config,
                   output_path, result, uncaught, spawned, last_spawn, last_call, raised>>

BatchValidate ==
    /\ entry = "batch" /\ pc = "validate"
    /\ errors' = validate(disk, project)
    /\ IF errors' # <<>>
       THEN BatchFail("Validation failed") /\ Fate("invalid")
       ELSE pc' = "setup" /\ UNCHANGED <<failed_projects, exit_code, i, attempted>>
    /\ UNCHANGED <<entry, args, disk, disk0, definitions, project,
                   render_config_override, render_config, scenes_to_render, k,
                   successful_projects, temp_videos, codec_config,
                   output_path, result, uncaught, spawned, last_spawn, last_call, raised>>

\* a variant that updates the config of the project before instead of a copy
BatchRenderConfig_Leaks(proj, override) ==
    Update(render_config, Update(render_config_of(proj), override))

\* project.render_config.copy(), updated by the preset when one was loaded
BatchRenderConfig(proj, override) ==
    IF override # EmptyMap THEN Update(render_config_of(proj), override)
    ELSE render_config_of(proj)

BatchSetup ==
    /\ entry = "batch" /\ pc = "setup"
    /\ disk' = setup_output_directories(disk, project)
    /\ render_config' = BatchRenderConfig(project, render_config_override)
    /\ k' = 1
    /\ pc' = "render"
    /\ UNCHANGED <<entry, args, disk0, definitions, i, project, errors,
                   render_config_override, scenes_to_render,
                   failed_projects, successful_projects, temp_videos, codec_config,
                   output_path, result, exit_code, uncaught, spawned, last_spawn, attempted, last_call, raised>>

\* the command the loop body spawns for one scene
SceneRenderCmd(proj, scene, config) ==
    render_scene(scene.blend_file,
                 JoinName(get_frames_dir(proj, scene.name), <<scene.name, "_####">>),
                 scene.frame_start, scene.frame_end, config)

\* a variant that goes on to the next scene after a failed render
BatchRenderScene_KeepsGoing ==
    /\ entry = "batch" /\ pc = "render" /\ k <= Len(project.scenes)
    /\ LET scene == project.scenes[k]
           cmd == SceneRenderCmd(project, scene, render_config)
       IN IF RenderSceneRaises(disk, scene.blend_file)
          THEN /\ BatchFail("Blend file not found")
               /\ Fate("render_error")
               /\ UNCHANGED <<disk, k, spawned, last_spawn, result>>
          ELSE \E rc \in ExitCodes :
                 /\ Spawn(cmd, rc, i, k)
                 /\ disk' = RendererRun(disk, cmd, rc)
                 /\ IF rc # 0
                    THEN k' = k + 1
                         /\ UNCHANGED <<failed_projects, exit_code, i, pc, attempted>>
                    ELSE k' = k + 1
                         /\ UNCHANGED <<failed_projects, exit_code, i, pc, attempted>>
    /\ raised' = IF RenderSceneRaises(disk, project.scenes[k].blend_file)
                 THEN Append(raised, "FileNotFoundError")
                 ELSE IF result' # 0 THEN Append(raised, "RuntimeError") ELSE raised
    /\ UNCHANGED <<entry, args, disk0, definitions, project, errors,
                   render_config_override, render_config, scenes_to_render,
                   successful_projects, temp_videos, codec_config,
                   output_path, uncaught, last_call>>

BatchRenderScene ==
    /\ entry = "batch" /\ pc = "render" /\ k <= Len(project.scenes)
    /\ LET scene == project.scenes[k]
           cmd == SceneRenderCmd(project, scene, render_config)
       IN IF RenderSceneRaises(disk, scene.blend_file)
          THEN /\ BatchFail("Blend file not found")
               /\ Fate("render_error")
               /\ UNCHANGED <<disk, k, spawned, last_spawn, result>>
          ELSE \E rc \in ExitCodes :
                 /\ Spawn(cmd, rc, i, k)
                 /\ disk' = RendererRun(disk, cmd, rc)
                 /\ IF rc # 0
                    THEN BatchFail("Render failed for scene") /\ Fate("render_error")
                         /\ k' = k
                    ELSE k' = k + 1
                         /\ UNCHANGED <<failed_projects, exit_code, i, pc, attempted>>
    /\ raised' = IF RenderSceneRaises(disk, project.scenes[k].blend_file)
                 THEN Append(raised, "FileNotFoundError")
                 ELSE IF result' # 0 THEN Append(raised, "RuntimeError") ELSE raised
    /\ UNCHANGED <<entry, args, disk0, definitions, project, errors,
                   render_config_override, render_config, scenes_to_render,
                   successful_projects, temp_videos, codec_config,
                   output_path, uncaught, last_call>>

\* after the last scene: the project is appended to successful_projects,
\* then the log line reads movie_config.get('title'), still inside the try
BatchProjectDone ==
    /\ entry = "batch" /\ pc = "render" /\ k > Len(project.scenes)
    /\ successful_projects' = Append(successful_projects, definitions[i])
    /\ IF MovieGetRaises(project)
       THEN BatchFail("AttributeError") /\ Fate("log_error")
       ELSE /\ Fate("rendered")
            /\ i' = i + 1
            /\ pc' = "load"
            /\ UNCHANGED <<failed_projects, exit_code>>
    /\ Raises(MovieGetRaises(project), "AttributeError")
    /\ UNCHANGED <<entry, args, disk, disk0, definitions, project, errors,
                   render_config_override, render_config, scenes_to_render, k,
                   temp_videos, codec_config,
                   output_path, result, uncaught, spawned, last_spawn, last_call>>

\* a variant in which the summary always returns 0
BatchSummary_AlwaysZero ==
    /\ entry = "batch" /\ pc = "load" /\ i > Len(definitions)
    /\ exit_code' = 0
    /\ pc' = "done"
    /\ UNCHANGED <<entry, args, disk, disk0, definitions, i, project, errors,
                   render_config_override, render_config, scenes_to_render, k,
                   failed_projects, successful_projects, temp_videos, codec_config,
                   output_path, result, uncaught, spawned, last_spawn, attempted, last_call, raised>>

BatchSummary ==
    /\ entry = "batch" /\ pc = "load" /\ i > Len(definitions)
    /\ exit_code' = IF failed_projects = <<>> THEN 0 ELSE 1
    /\ pc' = "done"
    /\ UNCHANGED <<entry, args, disk, disk0, definitions, i, project, errors,
                   render_config_override, render_config, scenes_to_render, k,
                   failed_projects, successful_projects, temp_videos, codec_config,
                   output_path, result, uncaught, spawned, last_spawn, attempted, last_call, raised>>

NextBatch ==
    \/ BatchDiscover
    \/ BatchLoadPreset
    \/ BatchLoadProject
    \/ BatchValidate
    \/ BatchSetup
    \/ BatchRenderScene
    \/ BatchProjectDone
    \/ BatchSummary

SpecBatch == InitBatch /\ [][NextBatch]_vars

\* The loop is sequential and every statement of main returns; the one step
\* that waits is subprocess.run, which returns once the child has exited.
\* With every child exiting, a step that can be taken is taken.
SpecBatchFair == SpecBatch /\ WF_vars(NextBatch)

\* Discovery alone, over worlds where a directory may hold a definition of
\* its own, definitions one level below and definitions two levels below,
\* and over command lines that name missing directories.
DiscoveryDirs ==
    {<<<<"d1">>>>, <<<<"d1">>, <<"s">>>>, <<<<"d1">>, <<"s", "s">>>>,
     <<<<"d1">>, <<"s">>, <<"t">>>>, <<<<"d2">>>>}
DirectoryArgs == {ds \in SeqsUpTo({"d1", "d2"}, MaxDirectories) : ds # <<>>}

InitDiscovery ==
    /\ entry = "batch"
    /\ \E directories \in DirectoryArgs :
          args = Args(Absent, FALSE, directories, NoPath, Absent, FALSE, Absent, NoPath, NoPath)
    /\ \E dirs \in SUBSET DiscoveryDirs : disk = DiskWith(dirs, {<<<<"d1">>>>})
    /\ disk0 = disk
    /\ pc = "discover"
    /\ InitLocals

NextDiscovery == BatchDiscover

SpecDiscovery == InitDiscovery /\ [][NextDiscovery]_vars

\* -------------------------------------------------- build_movie.py: model
TheProject == <<<<"d1">>>>
TheDefinition == Join(TheProject, DefinitionName)

BuildScenes ==
    UNION {[1..m -> SceneData(SceneNames, {PresentBlend, AbsentBlend}, SceneConfigs)] :
           m \in 0..MaxScenes}
BuildDocuments == Documents(BuildScenes, {EmptyMap})
SceneArgs == {Absent, "a", "zz"}

InitBuild ==
    /\ entry = "build"
    /\ \E preset \in PresetArgs, scene \in SceneArgs, dry_run \in BOOLEAN :
          args = Args(preset, FALSE, <<>>, TheDefinition, scene, dry_run, Absent,
                      NoPath, NoPath)
    /\ disk = DiskWith({TheProject}, {})
    /\ disk0 = disk
    /\ pc = "load"
    /\ InitLocals

\* return <code> from main
Return(code) == exit_code' = code /\ pc' = "done"

\* MovieProject(...), then the log line that formats the project (__repr__)
BuildLoad ==
    /\ entry = "build" /\ pc = "load"
    /\ \E doc \in BuildDocuments :
          /\ attempted' = Append(attempted,
                [definition |-> args.definition,
                 fate |-> IF LoadOk(args.definition :> doc, disk, args.definition)
                          THEN "loaded" ELSE "load_error"])
          /\ IF LoadOk(args.definition :> doc, disk, args.definition)
             THEN /\ project' = MovieProject(args.definition :> doc, args.definition)
                  /\ IF MovieGetRaises(project')
                     THEN Return(1)
                     ELSE pc' = "validate" /\ UNCHANGED exit_code
             ELSE Return(1) /\ UNCHANGED project
    /\ raised' = IF attempted'[Len(attempted')].fate = "load_error"
                 THEN Append(raised, "LoadError")
                 ELSE IF MovieGetRaises(project')
                      THEN Append(raised, "AttributeError") ELSE raised
    /\ UNCHANGED <<entry, args, disk, disk0, definitions, i, errors,
                   render_config_override, render_config, scenes_to_render, k,
                   failed_projects, successful_projects, temp_videos, codec_config,
                   output_path, result, uncaught, spawned, last_spawn, last_call>>

BuildValidate ==
    /\ entry = "build" /\ pc = "validate"
    /\ errors' = validate(disk, project)
    /\ IF errors' # <<>> THEN Return(1) ELSE pc' = "setup" /\ UNCHANGED exit_code
    /\ UNCHANGED <<entry, args, disk, disk0, definitions, i, project,
                   render_config_override, render_config, scenes_to_render, k,
                   failed_projects, successful_projects, temp_videos, codec_config,
                   output_path, result, uncaught, spawned, last_spawn, attempted, last_call, raised>>

\* a variant that goes on to render whatever the dry-run option says
BuildSetup_IgnoresDryRun ==
    /\ entry = "build" /\ pc = "setup"
    /\ disk' = setup_output_directories(disk, project)
    /\ pc' = "prepare" /\ UNCHANGED exit_code
    /\ UNCHANGED <<entry, args, disk0, definitions, i, project, errors,
                   render_config_override, render_config, scenes_to_render, k,
                   failed_projects, successful_projects, temp_videos, codec_config,
                   output_path, result, uncaught, spawned, last_spawn, attempted, last_call, raised>>

BuildSetup ==
    /\ entry = "build" /\ pc = "setup"
    /\ disk' = setup_output_directories(disk, project)
    /\ IF args.dry_run THEN Return(0) ELSE pc' = "prepare" /\ UNCHANGED exit_code
    /\ UNCHANGED <<entry, args, disk0, definitions, i, project, errors,
                   render_config_override, render_config, scenes_to_render, k,
                   failed_projects, successful_projects, temp_videos, codec_config,
                   output_path, result, uncaught, spawned, last_spawn, attempted, last_call, raised>>

\* a variant in which the movie-level values win over the preset
BuildRenderConfig_MovieWins(proj, preset) ==
    IF preset # Absent THEN Update(load_render_preset(preset), render_config_of(proj))
    ELSE render_config_of(proj)

\* project.render_config.copy(), updated by the preset when one is named
BuildRenderConfig(proj, preset) ==
    IF preset # Absent THEN Update(render_config_of(proj), load_render_preset(preset))
    ELSE render_config_of(proj)

\* [project.get_scene(args.scene)] if args.scene else project.scenes
ScenesToRender(proj, scene_arg) ==
    IF scene_arg # Absent THEN <<get_scene(proj, scene_arg)>> ELSE proj.scenes

BuildPrepare ==
    /\ entry = "build" /\ pc = "prepare"
    /\ IF args.preset # Absent /\ LoadRenderPresetRaises(args.preset)
       THEN Return(1) /\ UNCHANGED <<render_config, scenes_to_render, k>>
       ELSE /\ render_config' = BuildRenderConfig(project, args.preset)
            /\ scenes_to_render' = ScenesToRender(project, args.scene)
            /\ IF \/ scenes_to_render' = <<>>
                  \/ (args.scene # Absent /\ scenes_to_render'[1] = NoScene)
               THEN Return(1) /\ k' = k
               ELSE pc' = "render" /\ k' = 1 /\ UNCHANGED exit_code
    /\ Raises(args.preset # Absent /\ LoadRenderPresetRaises(args.preset), "ValueError")
    /\ UNCHANGED <<entry, args, disk, disk0, definitions, i, project, errors,
                   render_config_override,
                   failed_projects, successful_projects, temp_videos, codec_config,
                   output_path, result, uncaught, spawned, last_spawn, attempted, last_call>>

\* a variant that answers every renderer failure with exit code 1
BuildRenderScene_ReturnsOne ==
    /\ entry = "build" /\ pc = "render" /\ k <= Len(scenes_to_render)
    /\ LET scene == scenes_to_render[k]
           cmd == SceneRenderCmd(project, scene, render_config)
       IN IF RenderSceneRaises(disk, scene.blend_file)
          THEN Return(1) /\ UNCHANGED <<disk, k, spawned, last_spawn, result>>
          ELSE \E rc \in ExitCodes :
                 /\ Spawn(cmd, rc, 1, k)
                 /\ disk' = RendererRun(disk, cmd, rc)
                 /\ IF rc # 0
                    THEN Return(1) /\ k' = k
                    ELSE k' = k + 1 /\ UNCHANGED <<exit_code, pc>>
    /\ Raises(RenderSceneRaises(disk, scenes_to_render[k].blend_file), "FileNotFoundError")
    /\ UNCHANGED <<entry, args, disk0, definitions, i, project, errors,
                   render_config_override, render_config, scenes_to_render,
                   failed_projects, successful_projects, temp_videos, codec_config,
                   output_path, uncaught, attempted, last_call>>

BuildRenderScene ==
    /\ entry = "build" /\ pc = "render" /\ k <= Len(scenes_to_render)
    /\ LET scene == scenes_to_render[k]
           cmd == SceneRenderCmd(project, scene, render_config)
       IN IF RenderSceneRaises(disk, scene.blend_file)
          THEN Return(1) /\ UNCHANGED <<disk, k, spawned, last_spawn, result>>
          ELSE \E rc \in ExitCodes :
                 /\ Spawn(cmd, rc, 1, k)
                 /\ disk' = RendererRun(disk, cmd, rc)
                 /\ IF rc # 0
                    THEN Return(rc) /\ k' = k
                    ELSE k' = k + 1 /\ UNCHANGED <<exit_code, pc>>
    /\ Raises(RenderSceneRaises(disk, scenes_to_render[k].blend_file), "FileNotFoundError")
    /\ UNCHANGED <<entry, args, disk0, definitions, i, project, errors,
                   render_config_override, render_config, scenes_to_render,
                   failed_projects, successful_projects, temp_videos, codec_config,
                   output_path, uncaught, attempted, last_call>>

BuildFinish ==
    /\ entry = "build" /\ pc = "render" /\ k > Len(scenes_to_render)
    /\ Return(0)
    /\ UNCHANGED <<entry, args, disk, disk0, definitions, i, project, errors,
                   render_config_override, render_config, scenes_to_render, k,
                   failed_projects, successful_projects, temp_videos, codec_config,
                   output_path, result, uncaught, spawned, last_spawn, attempted, last_call, raised>>

NextBuild ==
    \/ BuildLoad
    \/ BuildValidate
    \/ BuildSetup
    \/ BuildPrepare
    \/ BuildRenderScene
    \/ BuildFinish

SpecBuild == InitBuild /\ [][NextBuild]_vars

\* ------------------------------------------------- export_final.py: model
ExportScenes ==
    UNION {[1..m -> SceneData(SceneNames, {PresentBlend}, {EmptyMap})] : m \in 0..MaxScenes}
ExportDocuments == Documents(ExportScenes, {EmptyMap})
CodecArgs == {"h264", "missing"}
AudioFile == <<<<"audio.wav">>>>
AudioArgs == {NoPath, AudioFile}
OutputArgs == {NoPath, <<<<"out">>, <<"movie.mp4">>>>}

InitExport ==
    /\ entry = "export"
    /\ \E codec \in CodecArgs, audio \in AudioArgs, output \in OutputArgs :
          args = Args(Absent, FALSE, <<>>, TheDefinition, Absent, FALSE, codec,
                      audio, output)
    /\ disk = DiskWith({TheProject}, {})
    /\ disk0 = disk
    /\ pc = "load"
    /\ InitLocals

\* MovieProject(...), then the log line that formats the project (__repr__)
ExportLoad ==
    /\ entry = "export" /\ pc = "load"
    /\ \E doc \in ExportDocuments :
          /\ attempted' = Append(attempted,
                [definition |-> args.definition,
                 fate |-> IF LoadOk(args.definition :> doc, disk, args.definition)
                          THEN "loaded" ELSE "load_error"])
          /\ IF LoadOk(args.definition :> doc, disk, args.definition)
             THEN /\ project' = MovieProject(args.definition :> doc, args.definition)
                  /\ IF MovieGetRaises(project')
                     THEN Return(1)
                     ELSE pc' = "prepare" /\ UNCHANGED exit_code
             ELSE Return(1) /\ UNCHANGED project
    /\ raised' = IF attempted'[Len(attempted')].fate = "load_error"
                 THEN Append(raised, "LoadError")
                 ELSE IF MovieGetRaises(project')
                      THEN Append(raised, "AttributeError") ELSE raised
    /\ UNCHANGED <<entry, args, disk, disk0, definitions, i, errors,
                   render_config_override, render_config, scenes_to_render, k,
                   failed_projects, successful_projects, temp_videos, codec_config,
                   output_path, result, uncaught, spawned, last_spawn, last_call>>

\* which branch main takes: one scene is exported directly
ExportBranch(proj) == IF Len(proj.scenes) = 1 THEN "single" ELSE "multi"

\* codec preset, output path and its parent directory, then the given branch
ExportPrepareTo(branch) ==
    /\ entry = "export" /\ pc = "prepare"
    /\ IF LoadExportPresetRaises(args.codec)
       THEN Return(1) /\ UNCHANGED <<codec_config, output_path, disk, k>>
       ELSE /\ codec_config' = load_export_preset(args.codec)
            /\ output_path' = IF args.output # NoPath THEN args.output
                              ELSE get_output_path(project)
            /\ disk' = Mkdir(disk, Parent(output_path'))
            /\ k' = 1
            /\ pc' = branch
            /\ UNCHANGED exit_code
    /\ Raises(LoadExportPresetRaises(args.codec), "ValueError")
    /\ UNCHANGED <<entry, args, disk0, definitions, i, project, errors,
                   render_config_override, render_config, scenes_to_render,
                   failed_projects, successful_projects, temp_videos,
                   result, uncaught, spawned, last_spawn, attempted, last_call>>

ExportPrepare == ExportPrepareTo(ExportBranch(project))

fps_of(proj) == Get(movie_config(proj), "fps", DefaultFps)
frames_pattern(proj, scene) ==
    JoinName(get_frames_dir(proj, scene.name), <<scene.name, "_%04d.png">>)
temp_output(proj, scene) ==
    JoinName(Parent(get_frames_dir(proj, scene.name)), <<scene.name, "_temp.mp4">>)
temp_concatenated(out) == Join(Parent(out), "temp_concatenated.mp4")

\* the single-scene branch: one encoder call straight to the output path
SingleSceneCmd(proj, out, codec, audio) ==
    frames_to_video(frames_pattern(proj, proj.scenes[1]), out, fps_of(proj),
                    proj.scenes[1].frame_start, codec, audio)

ExportSingle ==
    /\ entry = "export" /\ pc = "single"
    /\ LET cmd == SingleSceneCmd(project, output_path, codec_config, args.audio)
       IN \E rc \in ExitCodes :
            /\ rc = 0 => EncoderCanSucceed(disk, cmd)
            /\ Spawn(cmd, rc, 1, 1)
            /\ disk' = EncoderRun(disk, cmd, rc)
            /\ IF rc # 0 THEN Return(rc) ELSE pc' = "report" /\ UNCHANGED exit_code
    /\ UNCHANGED <<entry, args, disk0, definitions, i, project, errors,
                   render_config_override, render_config, scenes_to_render, k,
                   failed_projects, successful_projects, temp_videos, codec_config,
                   output_path, uncaught, attempted, last_call, raised>>

\* a variant that leaves fps at the encoder call's default
SceneVideoCmd_DefaultFps(proj, scene, codec) ==
    frames_to_video(frames_pattern(proj, scene), temp_output(proj, scene), DefaultFps,
                    scene.frame_start, codec, NoPath)

\* the multi-scene branch, one scene: encode to a temporary video, no audio
SceneVideoCmd(proj, scene, codec) ==
    frames_to_video(frames_pattern(proj, scene), temp_output(proj, scene), fps_of(proj),
                    scene.frame_start, codec, NoPath)

\* a variant that runs the encoder again for a scene whose encode failed
ExportSceneVideo_Retries ==
    /\ entry = "export" /\ pc = "multi" /\ k <= Len(project.scenes)
    /\ LET cmd == SceneVideoCmd(project, project.scenes[k], codec_config)
       IN \E rc \in ExitCodes :
            /\ rc = 0 => EncoderCanSucceed(disk, cmd)
            /\ Spawn(cmd, rc, 1, k)
            /\ disk' = EncoderRun(disk, cmd, rc)
            /\ IF rc # 0
               THEN UNCHANGED <<temp_videos, k, exit_code, pc>>
               ELSE /\ temp_videos' = Append(temp_videos, cmd.output)
                    /\ k' = k + 1
                    /\ UNCHANGED <<exit_code, pc>>
    /\ UNCHANGED <<entry, args, disk0, definitions, i, project, errors,
                   render_config_override, render_config, scenes_to_render,
                   failed_projects, successful_projects, codec_config,
                   output_path, uncaught, attempted, last_call, raised>>

ExportSceneVideo ==
    /\ entry = "export" /\ pc = "multi" /\ k <= Len(project.scenes)
    /\ LET cmd == SceneVideoCmd(project, project.scenes[k], codec_config)
       IN \E rc \in ExitCodes :
            /\ rc = 0 => EncoderCanSucceed(disk, cmd)
            /\ Spawn(cmd, rc, 1, k)
            /\ disk' = EncoderRun(disk, cmd, rc)
            /\ IF rc # 0
               THEN Return(rc) /\ UNCHANGED <<temp_videos, k>>
               ELSE /\ temp_videos' = Append(temp_videos, cmd.output)
                    /\ k' = k + 1
                    /\ UNCHANGED <<exit_code, pc>>
    /\ UNCHANGED <<entry, args, disk0, definitions, i, project, errors,
                   render_config_override, render_config, scenes_to_render,
                   failed_projects, successful_projects, codec_config,
                   output_path, uncaught, attempted, last_call, raised>>

\* concatenate_videos: write the manifest, run the encoder, remove the manifest
ConcatStep(video_paths, out, codec, rc, proj) ==
    LET cmd == concatenate_videos(video_paths, out, codec)
        listed == WriteFile(disk, concat_file(out), ConcatManifest(video_paths))
    IN /\ rc = 0 => EncoderCanSucceed(listed, cmd)
       /\ spawned' = Append(spawned, [tool |-> cmd.tool, op |-> cmd.op, project |-> proj,
                                      scene |-> 0, output |-> cmd.output, rc |-> rc])
       /\ last_spawn' = [cmd |-> cmd, rc |-> rc, manifest |-> listed.files[cmd.input]]
       /\ result' = rc
       /\ disk' = Unlink(EncoderRun(listed, cmd, rc), concat_file(out))

\* concatenate_videos when subprocess.run cannot start the executable: the
\* manifest is written, the exception leaves the method before the unlink
ConcatNoLaunch(video_paths, out, codec) ==
    LET cmd == concatenate_videos(video_paths, out, codec)
        listed == WriteFile(disk, concat_file(out), ConcatManifest(video_paths))
    IN /\ last_spawn' = [cmd |-> cmd, rc |-> NoExit, manifest |-> listed.files[cmd.input]]
       /\ result' = NoExit
       /\ disk' = listed
       /\ UNCHANGED spawned

\* a variant that returns 1 for a failed concatenation, whatever the exit code
ExportConcat_ReturnsOne ==
    /\ entry = "export" /\ pc = "multi" /\ k > Len(project.scenes)
    /\ \E rc \in ExitCodes :
          /\ ConcatStep(temp_videos, temp_concatenated(output_path), codec_config, rc, 1)
          /\ IF rc # 0 THEN Return(1) ELSE pc' = "finalize" /\ UNCHANGED exit_code
    /\ UNCHANGED <<entry, args, disk0, definitions, i, project, errors,
                   render_config_override, render_config, scenes_to_render, k,
                   failed_projects, successful_projects, temp_videos, codec_config,
                   output_path, uncaught, attempted, last_call, raised>>

ExportConcat ==
    /\ entry = "export" /\ pc = "multi" /\ k > Len(project.scenes)
    /\ \E rc \in ExitCodes :
          /\ ConcatStep(temp_videos, temp_concatenated(output_path), codec_config, rc, 1)
          /\ IF rc # 0 THEN Return(rc) ELSE pc' = "finalize" /\ UNCHANGED exit_code
    /\ UNCHANGED <<entry, args, disk0, definitions, i, project, errors,
                   render_config_override, render_config, scenes_to_render, k,
                   failed_projects, successful_projects, temp_videos, codec_config,
                   output_path, uncaught, attempted, last_call, raised>>

\* unlink every temporary scene video; FileNotFoundError when one is gone
RECURSIVE UnlinkAllRaises(_, _, _)
UnlinkAllRaises(d, paths, n) ==
    IF n > Len(paths) THEN FALSE
    ELSE ~UnlinkOk(d, paths[n]) \/ UnlinkAllRaises(Unlink(d, paths[n]), paths, n + 1)

\* a variant of the cleanup that leaves the scene videos in place
UnlinkAll_KeepsFiles(d, paths, n) == d

RECURSIVE UnlinkAll(_, _, _)
UnlinkAll(d, paths, n) ==
    IF n > Len(paths) \/ ~UnlinkOk(d, paths[n]) THEN d
    ELSE UnlinkAll(Unlink(d, paths[n]), paths, n + 1)

\* after a successful concatenation: add_audio or rename, then the cleanup
ExportFinalize ==
    /\ entry = "export" /\ pc = "finalize"
    /\ LET tmp == temp_concatenated(output_path) IN
       IF args.audio # NoPath
       THEN LET cmd == add_audio(tmp, args.audio, output_path, "0.0")
            IN \E rc \in ExitCodes :
                 /\ rc = 0 => EncoderCanSucceed(disk, cmd)
                 /\ Spawn(cmd, rc, 1, 0)
                 /\ IF rc # 0
                    THEN disk' = disk /\ Return(rc)
                    ELSE LET muxed == Unlink(EncoderRun(disk, cmd, rc), tmp)
                         IN /\ disk' = UnlinkAll(muxed, temp_videos, 1)
                            /\ IF UnlinkAllRaises(muxed, temp_videos, 1)
                               THEN Return(1)
                               ELSE pc' = "report" /\ UNCHANGED exit_code
       ELSE LET renamed == Rename(disk, tmp, output_path)
            IN /\ disk' = UnlinkAll(renamed, temp_videos, 1)
               /\ IF UnlinkAllRaises(renamed, temp_videos, 1)
                  THEN Return(1)
                  ELSE pc' = "report" /\ UNCHANGED exit_code
               /\ UNCHANGED <<spawned, last_spawn, result>>
    /\ Raises(LET tmp == temp_concatenated(output_path) IN
              IF args.audio # NoPath
              THEN result' = 0
                   /\ UnlinkAllRaises(Unlink(EncoderRun(disk,
                          add_audio(tmp, args.audio, output_path, "0.0"), 0), tmp),
                          temp_videos, 1)
              ELSE UnlinkAllRaises(Rename(disk, tmp, output_path), temp_videos, 1),
              "FileNotFoundError")
    /\ UNCHANGED <<entry, args, disk0, definitions, i, project, errors,
                   render_config_override, render_config, scenes_to_render, k,
                   failed_projects, successful_projects, temp_videos, codec_config,
                   output_path, uncaught, attempted, last_call>>

\* FileManager.get_file_size and the closing log lines
ExportReport ==
    /\ entry = "export" /\ pc = "report"
    /\ Return(0)
    /\ UNCHANGED <<entry, args, disk, disk0, definitions, i, project, errors,
                   render_config_override, render_config, scenes_to_render, k,
                   failed_projects, successful_projects, temp_videos, codec_config,
                   output_path, result, uncaught, spawned, last_spawn, attempted, last_call, raised>>

NextExport ==
    \/ ExportLoad
    \/ ExportPrepare
    \/ ExportSingle
    \/ ExportSceneVideo
    \/ ExportConcat
    \/ ExportFinalize
    \/ ExportReport

SpecExport == InitExport /\ [][NextExport]_vars

\* The two branches of main side by side: a project with one scene is sent
\* down either branch, so that the multi-scene branch runs over one scene.
ExportEitherPath ==
    \E branch \in {ExportBranch(project)}
                   \cup (IF Len(project.scenes) = 1 THEN {"single", "multi"} ELSE {}) :
        ExportPrepareTo(branch)

NextExportPaths ==
    \/ ExportLoad
    \/ ExportEitherPath
    \/ ExportSingle
    \/ ExportSceneVideo
    \/ ExportConcat
    \/ ExportFinalize
    \/ ExportReport

SpecExportPaths == InitExport /\ [][NextExportPaths]_vars

\* ---------------------------------------------- library calls: scene_builder
\* A caller that loads a project and then calls validate and
\* setup_output_directories, in any order, at most MaxCalls times.
ProjectDocuments ==
    Documents(BuildScenes, {EmptyMap, "final_video" :> CustomFinalVideo})

InitProject ==
    /\ entry = "project"
    /\ args = Args(Absent, FALSE, <<>>, TheDefinition, Absent, FALSE, Absent, NoPath, NoPath)
    /\ disk = DiskWith({TheProject}, {})
    /\ disk0 = disk
    /\ pc = "load"
    /\ InitLocals

ProjectLoad ==
    /\ entry = "project" /\ pc = "load"
    /\ \E doc \in ProjectDocuments :
          /\ attempted' = Append(attempted,
                [definition |-> args.definition,
                 fate |-> IF LoadOk(args.definition :> doc, disk, args.definition)
                          THEN "loaded" ELSE "load_error"])
          /\ IF LoadOk(args.definition :> doc, disk, args.definition)
             THEN /\ project' = MovieProject(args.definition :> doc, args.definition)
                  /\ pc' = "ready"
                  /\ UNCHANGED uncaught
             ELSE uncaught' = TRUE /\ pc' = "done" /\ UNCHANGED project
    /\ Raises(attempted'[Len(attempted')].fate = "load_error", "LoadError")
    /\ UNCHANGED <<entry, args, disk, disk0, definitions, i, errors,
                   render_config_override, render_config, scenes_to_render, k,
                   failed_projects, successful_projects, temp_videos, codec_config,
                   output_path, result, exit_code, spawned, last_spawn, last_call>>

\* a variant of the call in which validate creates the output directories
ProjectValidate_SetsUp ==
    /\ entry = "project" /\ pc = "ready" /\ k < MaxCalls
    /\ errors' = validate(disk, project)
    /\ last_call' = [fn |-> "validate", before |-> disk]
    /\ k' = k + 1
    /\ disk' = setup_output_directories(disk, project)
    /\ UNCHANGED <<entry, args, disk0, pc, definitions, i, project,
                   render_config_override, render_config, scenes_to_render,
                   failed_projects, successful_projects, temp_videos, codec_config,
                   output_path, result, exit_code, uncaught, spawned, last_spawn,
                   attempted, raised>>

ProjectValidate ==
    /\ entry = "project" /\ pc = "ready" /\ k < MaxCalls
    /\ errors' = validate(disk, project)
    /\ last_call' = [fn |-> "validate", before |-> disk]
    /\ k' = k + 1
    /\ UNCHANGED <<entry, args, disk, disk0, pc, definitions, i, project,
                   render_config_override, render_config, scenes_to_render,
                   failed_projects, successful_projects, temp_videos, codec_config,
                   output_path, result, exit_code, uncaught, spawned, last_spawn,
                   attempted, raised>>

ProjectSetup ==
    /\ entry = "project" /\ pc = "ready" /\ k < MaxCalls
    /\ disk' = setup_output_directories(disk, project)
    /\ last_call' = [fn |-> "setup_output_directories", before |-> disk]
    /\ k' = k + 1
    /\ UNCHANGED <<entry, args, disk0, pc, definitions, i, project, errors,
                   render_config_override, render_config, scenes_to_render,
                   failed_projects, successful_projects, temp_videos, codec_config,
                   output_path, result, exit_code, uncaught, spawned, last_spawn,
                   attempted, raised>>

NextProject ==
    \/ ProjectLoad
    \/ ProjectValidate
    \/ ProjectSetup

SpecProject == InitProject /\ [][NextProject]_vars

\* --------------------------------------------------- library calls: renderer
\* A caller of Renderer.render_scene and Renderer.render_frame.
RenderOutput == <<<<"out">>, <<"frame_####">>>>
BlendArgs == {Join(TheProject, PresentBlend), Join(TheProject, AbsentBlend)}
RenderConfigArgs == RenderMaps \cup SceneConfigs
Frames == 1..MaxFrame

InitRenderer ==
    /\ entry = "renderer"
    /\ args = Args(Absent, FALSE, <<>>, NoPath, Absent, FALSE, Absent, NoPath, NoPath)
    /\ disk = DiskWith({TheProject}, {<<<<"out">>>>})
    /\ disk0 = disk
    /\ pc = "ready"
    /\ InitLocals

\* one call that ends in render_scene: the precondition check, then the child
RenderCall(fn, cmd, blend_file, frame_start, frame_end, config) ==
    /\ last_call' = [fn |-> fn, blend_file |-> blend_file, frame_start |-> frame_start,
                     frame_end |-> frame_end, render_config |-> config,
                     blend_existed |-> Exists(disk, blend_file),
                     spawned_before |-> Len(spawned), before |-> disk]
    /\ k' = k + 1
    /\ Raises(RenderSceneRaises(disk, blend_file), "FileNotFoundError")
    /\ IF RenderSceneRaises(disk, blend_file)
       THEN /\ uncaught' = TRUE
            /\ result' = NoExit
            /\ UNCHANGED <<disk, spawned, last_spawn>>
       ELSE /\ uncaught' = FALSE
            /\ \E rc \in ExitCodes :
                  /\ Spawn(cmd, rc, 0, 0)
                  /\ disk' = RendererRun(disk, cmd, rc)

RendererRenderScene ==
    /\ entry = "renderer" /\ pc = "ready" /\ k < MaxCalls
    /\ \E blend_file \in BlendArgs, frame_start \in Frames, frame_end \in Frames,
          config \in RenderConfigArgs :
          RenderCall("render_scene",
                     render_scene(blend_file, RenderOutput, frame_start, frame_end, config),
                     blend_file, frame_start, frame_end, config)
    /\ UNCHANGED <<entry, args, disk0, pc, definitions, i, project, errors,
                   render_config_override, render_config, scenes_to_render,
                   failed_projects, successful_projects, temp_videos, codec_config,
                   output_path, exit_code, attempted>>

RendererRenderFrame ==
    /\ entry = "renderer" /\ pc = "ready" /\ k < MaxCalls
    /\ \E blend_file \in BlendArgs, frame \in Frames, config \in RenderConfigArgs :
          RenderCall("render_frame",
                     render_frame(blend_file, RenderOutput, frame, config),
                     blend_file, frame, frame, config)
    /\ UNCHANGED <<entry, args, disk0, pc, definitions, i, project, errors,
                   render_config_override, render_config, scenes_to_render,
                   failed_projects, successful_projects, temp_videos, codec_config,
                   output_path, exit_code, attempted>>

NextRenderer ==
    \/ RendererRenderScene
    \/ RendererRenderFrame

SpecRenderer == InitRenderer /\ [][NextRenderer]_vars

\* A caller of Renderer._build_render_script over render configs that hold
\* any subset of the known keys and of one unknown key.
ConfigKeys == {"engine", "samples", "resolution_percentage", "denoising", "device",
               "format", "tile_size"}
ConfigValues(denoising, device) ==
    "engine" :> "CYCLES" @@ "samples" :> "128" @@ "resolution_percentage" :> "50"
    @@ "denoising" :> denoising @@ "device" :> device @@ "format" :> "PNG"
    @@ "tile_size" :> "256"
ScriptConfigs ==
    {[key \in keys |-> ConfigValues(denoising, device)[key]] :
        keys \in SUBSET ConfigKeys, denoising \in {"True", "False"}, device \in {"GPU", "CPU"}}

InitScript ==
    /\ entry = "script"
    /\ args = Args(Absent, FALSE, <<>>, NoPath, Absent, FALSE, Absent, NoPath, NoPath)
    /\ disk = DiskWith({}, {})
    /\ disk0 = disk
    /\ pc = "ready"
    /\ InitLocals

ScriptBuild ==
    /\ entry = "script" /\ pc = "ready"
    /\ \E frame_start \in Frames, frame_end \in Frames, config \in ScriptConfigs :
          last_call' = [fn |-> "_build_render_script", frame_start |-> frame_start,
                        frame_end |-> frame_end, render_config |-> config,
                        script |-> _build_render_script(RenderOutput, frame_start,
                                                        frame_end, config)]
    /\ pc' = "done"
    /\ UNCHANGED <<entry, args, disk, disk0, definitions, i, project, errors,
                   render_config_override, render_config, scenes_to_render, k,
                   failed_projects, successful_projects, temp_videos, codec_config,
                   output_path, result, exit_code, uncaught, spawned, last_spawn,
                   attempted, raised>>

NextScript == ScriptBuild

SpecScript == InitScript /\ [][NextScript]_vars

\* ------------------------------------------------- library calls: compositor
\* A caller of Compositor.frames_to_video and Compositor.concatenate_videos
\* over a small pool of video paths: it encodes the videos that are not on
\* disk yet, then concatenates a sequence drawn from the pool.
ClipsDir == <<<<"clips">>>>
VideoPool == {JoinName(ClipsDir, <<[x \in 1..m |-> "v"], ".mp4">>) : m \in 1..(MaxVideos + 1)}
ConcatOutput == <<<<"out">>, <<"joined.mp4">>>>
CodecConfigArgs == {EmptyMap, load_export_preset("h264")}

\* the pool's videos that are on disk at the start: all but the last
PoolVideo(m) == JoinName(ClipsDir, <<[x \in 1..m |-> "v"], ".mp4">>)
PoolFrames(m) == JoinName(ClipsDir, <<[x \in 1..m |-> "v"], "_%04d.png">>)
StoredVideos ==
    [p \in {PoolVideo(m) : m \in 1..MaxVideos} |->
        Video(<<[frames |-> PoolFrames(Len(p[Len(p)][1])), start |-> 1, fps |-> DefaultFps]>>,
              NoPath)]

InitCompositor ==
    /\ entry = "compositor"
    /\ args = Args(Absent, FALSE, <<>>, NoPath, Absent, FALSE, Absent, NoPath, NoPath)
    /\ disk = [DiskWith({}, {ClipsDir, <<<<"out">>>>}) EXCEPT !.files = StoredVideos]
    /\ disk0 = disk
    /\ pc = "ready"
    /\ InitLocals

CompositorFramesToVideo ==
    /\ entry = "compositor" /\ pc = "ready" /\ k < MaxCalls
    /\ \E out \in {p \in VideoPool : ~Exists(disk, p)}, rc \in ExitCodes :
          LET cmd == frames_to_video(PoolFrames(Len(out[Len(out)][1])),
                                     out, DefaultFps, 1, EmptyMap, NoPath)
          IN /\ rc = 0 => EncoderCanSucceed(disk, cmd)
             /\ Spawn(cmd, rc, 0, 0)
             /\ disk' = EncoderRun(disk, cmd, rc)
             /\ last_call' = [fn |-> "frames_to_video", video_paths |-> <<>>,
                              output_path |-> out, before |-> disk]
    /\ k' = k + 1
    /\ UNCHANGED <<entry, args, disk0, pc, definitions, i, project, errors,
                   render_config_override, render_config, scenes_to_render,
                   failed_projects, successful_projects, temp_videos, codec_config,
                   output_path, exit_code, uncaught, attempted, raised>>

CompositorConcatenate ==
    /\ entry = "compositor" /\ pc = "ready" /\ k < MaxCalls
    /\ \E video_paths \in SeqsUpTo(VideoPool, MaxVideos), codec \in CodecConfigArgs,
          rc \in ExitCodes, launched \in BOOLEAN :
          /\ IF launched
             THEN /\ ConcatStep(video_paths, ConcatOutput, codec, rc, 0)
                  /\ UNCHANGED uncaught
             ELSE /\ ConcatNoLaunch(video_paths, ConcatOutput, codec)
                  /\ uncaught' = TRUE
          /\ Raises(~launched, "FileNotFoundError")
          /\ last_call' = [fn |-> "concatenate_videos", video_paths |-> video_paths,
                           output_path |-> ConcatOutput, before |-> disk]
    /\ k' = k + 1
    /\ pc' = "done"
    /\ UNCHANGED <<entry, args, disk0, definitions, i, project, errors,
                   render_config_override, render_config, scenes_to_render,
                   failed_projects, successful_projects, temp_videos, codec_config,
                   output_path, exit_code, attempted>>

NextCompositor ==
    \/ CompositorFramesToVideo
    \/ CompositorConcatenate

SpecCompositor == InitCompositor /\ [][NextCompositor]_vars

\* ------------------------------------------------ the three entry points
InitCli == InitBatch \/ InitBuild \/ InitExport
NextCli == NextBatch \/ NextBuild \/ NextExport
SpecCli == InitCli /\ [][NextCli]_vars

Spec == SpecCli

\* ------------------------------------------------------------ claims: batch
Failures == {"load_error", "invalid", "render_error", "log_error"}
\* history: the j-th discovered project was processed and failed / succeeded
ProjectFailed(j) == j \in DOMAIN attempted /\ attempted[j].fate \in Failures
ProjectSucceeded(j) == j \in DOMAIN attempted /\ attempted[j].fate = "rendered"

\* the project directory of the j-th discovered definition
ProjectDirOf(j) == Parent(definitions[j])
Under(p, dir) == Len(p) >= Len(dir) /\ SubSeq(p, 1, Len(dir)) = dir
\* nothing was done for the j-th project: not loaded, nothing created below
\* its directory, no child spawned for it
Untouched(j) ==
    /\ j \notin DOMAIN attempted
    /\ \A p \in disk.dirs \ disk0.dirs : ~Under(p, ProjectDirOf(j))
    /\ \A p \in (DOMAIN disk.files) \ (DOMAIN disk0.files) : ~Under(p, ProjectDirOf(j))
    /\ \A n \in DOMAIN spawned : spawned[n].project # j

\* C1: in a batch over [P1, P2] where P1 fails: without continue_on_error
\* the run stops after P1 with P2 never attempted (not loaded, no directory
\* created, no renderer invoked); with continue_on_error both are attempted
\* and, P2 succeeding, the summary counts exactly 1 successful and 1 failed.
C1_ContinueOnError ==
    (entry = "batch" /\ Len(definitions) = 2 /\ ProjectFailed(1)) =>
        /\ ~args.continue_on_error =>
              /\ pc = "done" /\ exit_code = 1
              /\ Len(attempted) = 1
              /\ Untouched(2)
        /\ (args.continue_on_error /\ pc = "done" /\ ProjectSucceeded(2)) =>
              /\ Len(attempted) = 2
              /\ Len(successful_projects) = 1 /\ successful_projects[1] = definitions[2]
              /\ Len(failed_projects) = 1 /\ failed_projects[1][1] = definitions[1]
              /\ exit_code = 1

C1_Witness ==
    /\ entry = "batch" /\ Len(definitions) = 2 /\ pc = "done"
    /\ args.continue_on_error
    /\ ProjectFailed(1) /\ ProjectSucceeded(2)
    /\ Len(spawned) > 0

\* C2 as stated: the batch exit status is non-zero if and only if at least
\* one discovered project failed.
C2_ExitIffFailed ==
    (entry = "batch" /\ pc = "done") =>
        ((exit_code # 0) <=> (\E j \in DOMAIN definitions : ProjectFailed(j)))

\* C2 amended: the batch exit status is non-zero if and only if at least one
\* discovered project failed, or no definition was discovered, or the named
\* render preset could not be loaded.
C2_ExitIffFailedOrNothingToDo ==
    (entry = "batch" /\ pc = "done") =>
        ((exit_code # 0) <=>
            \/ \E j \in DOMAIN definitions : ProjectFailed(j)
            \/ definitions = <<>>
            \/ (args.preset # Absent /\ args.preset \notin DOMAIN RenderPresets))

C2_Witness ==
    /\ entry = "batch" /\ pc = "done"
    /\ definitions = <<>>
    /\ exit_code = 1
    /\ attempted = <<>>

\* --------------------------------------------------- claims: render config
\* the scene the last renderer child was spawned for
RenderedScene ==
    IF entry = "batch" THEN project.scenes[spawned[Len(spawned)].scene]
    ELSE scenes_to_render[spawned[Len(spawned)].scene]
\* the preset loaded for this run (empty when none was named)
LoadedPreset == IF args.preset # Absent THEN load_render_preset(args.preset) ELSE EmptyMap
\* the value the renderer's script sets for samples, "" when it sets none
ScriptValue(script, opt) ==
    IF \E n \in DOMAIN script.settings : script.settings[n].opt = opt
    THEN script.settings[CHOOSE n \in DOMAIN script.settings : script.settings[n].opt = opt].val
    ELSE Absent

\* C3: the render configuration passed to the renderer for a scene takes, for
\* every key in both the scene-level config and the movie-level defaults, the
\* scene-level value; and for every key only in the loaded preset, the preset
\* value unless the scene-level config has the key, then the scene-level value.
C3_SceneConfigWins ==
    (entry \in {"batch", "build"} /\ spawned # <<>>) =>
        LET scene == RenderedScene
            movie == render_config_of(project)
        IN /\ \A key \in (DOMAIN scene.config) \cap (DOMAIN movie) :
                 /\ render_config[key] = scene.config[key]
                 /\ key = "samples" =>
                       ScriptValue(last_spawn.cmd.script, "cycles.samples") = scene.config[key]
           /\ \A key \in (DOMAIN LoadedPreset) \ (DOMAIN movie) :
                 render_config[key] = IF key \in DOMAIN scene.config
                                      THEN scene.config[key] ELSE LoadedPreset[key]

\* ----------------------------------------------------- claims: empty scenes
\* index of the loaded project among the attempted ones
CurrentProject == Len(attempted)
\* directories and files created below the loaded project's directory
CreatedFor(proj) ==
    {p \in (disk.dirs \ disk0.dirs) \cup ((DOMAIN disk.files) \ (DOMAIN disk0.files)) :
        Under(p, proj.project_dir)}
SpawnedFor(j) == {n \in DOMAIN spawned : spawned[n].project = j}

\* C4: for a definition whose scenes list is empty, validation yields the
\* error "No scenes defined" and the entry point (build, batch, export) is
\* done with that project before any directory is created and before any
\* renderer or encoder is spawned.
C4_EmptyScenesHalt ==
    (/\ entry \in {"build", "batch", "export"}
     /\ attempted # <<>> /\ attempted[Len(attempted)].fate # "load_error"
     /\ project.definition_path = attempted[Len(attempted)].definition
     /\ Len(project.scenes) = 0) =>
        /\ CreatedFor(project) = {}
        /\ entry # "batch" => disk.dirs = disk0.dirs
        /\ SpawnedFor(IF entry = "batch" THEN CurrentProject ELSE 1) = {}
        /\ pc \notin {"load", "validate", "prepare"} =>
              /\ \E n \in DOMAIN errors : errors[n] = ErrNoScenes
              /\ pc = "done" => exit_code # 0

\* ------------------------------------------------------- claims: validate
\* the scenes whose resolved blend file was missing when validate was called
MissingBlend == {n \in DOMAIN project.scenes :
                    ~Exists(last_call.before, project.scenes[n].blend_file)}
MovieMissing == IF movie_config(project) = EmptyMap THEN 1 ELSE 0
ScenesMissing == IF Len(project.scenes) = 0 THEN 1 ELSE 0

\* C5: validate returns the empty list iff the movie config is non-empty, the
\* scenes list is non-empty and every scene's blend file exists; otherwise it
\* returns exactly one error per violated condition, in the order: missing
\* movie config, no scenes, then one per scene with a missing blend file in
\* scene order.
C5_ValidateErrors ==
    (entry = "project" /\ last_call # NoCall /\ last_call.fn = "validate") =>
        /\ (errors = <<>>) <=>
              (MovieMissing = 0 /\ ScenesMissing = 0 /\ MissingBlend = {})
        /\ Len(errors) = MovieMissing + ScenesMissing + Cardinality(MissingBlend)
        /\ MovieMissing = 1 => errors[1] = ErrMissingMovie
        /\ ScenesMissing = 1 => errors[MovieMissing + 1] = ErrNoScenes
        /\ \A n \in MissingBlend :
              errors[MovieMissing + ScenesMissing
                     + Cardinality({m \in MissingBlend : m <= n})]
                 = ErrBlendNotFound(project.scenes[n].blend_file)

C5_Witness ==
    /\ entry = "project" /\ last_call # NoCall /\ last_call.fn = "validate"
    /\ MovieMissing = 1
    /\ Len(project.scenes) = 2
    /\ MissingBlend = {2}
    /\ Len(errors) = 2

\* ---------------------------------------------- claims: output directories
FramesRoot == get_frames_dir(project, Absent)
\* the per-scene frame directories on disk
FrameDirs == {p \in disk.dirs : Len(p) > 0 /\ Parent(p) = FramesRoot}
SceneFrameDirs == {get_frames_dir(project, project.scenes[n].name) : n \in DOMAIN project.scenes}
FinalDir == Parent(get_output_path(project))
HasMarker(dir) == dir \in disk.dirs /\ IsFile(disk, Join(dir, Gitkeep))
AfterSetup == entry = "project" /\ last_call # NoCall /\ last_call.fn = "setup_output_directories"
\* what setup_output_directories guarantees whatever the scene names are
SetupKeepsDirs ==
    /\ FrameDirs = SceneFrameDirs
    /\ \A dir \in FrameDirs \cup {FinalDir} : HasMarker(dir)
    /\ disk.dirs \ last_call.before.dirs
          \subseteq UNION {Ancestors(dir) : dir \in SceneFrameDirs \cup {FinalDir}}
    /\ \A f \in (DOMAIN disk.files) \ (DOMAIN last_call.before.files) :
          \E dir \in SceneFrameDirs \cup {FinalDir} : f = Join(dir, Gitkeep)
    /\ \A f \in DOMAIN last_call.before.files : disk.files[f] = last_call.before.files[f]
    /\ setup_output_directories(disk, project) = disk

\* C6 as stated: for every loaded definition with N scenes,
\* setup_output_directories creates exactly N per-scene frame directories plus
\* the parent directory of the final output path, each with a marker file,
\* and a second call leaves directories and files as they were.
C6_ExactlyNFrameDirs ==
    AfterSetup => (SetupKeepsDirs /\ Cardinality(FrameDirs) = Len(project.scenes))

DistinctNames == {project.scenes[n].name : n \in DOMAIN project.scenes}

\* C6 amended: setup_output_directories creates one frame directory per
\* distinct scene name (N of them when the N scene names are pairwise
\* different) plus the parent directory of the final output path, each with
\* a marker file, and a second call leaves directories and files as they were.
C6_FrameDirPerSceneName ==
    AfterSetup =>
        /\ SetupKeepsDirs
        /\ Cardinality(FrameDirs) = Cardinality(DistinctNames)
        /\ Cardinality(DistinctNames) = Len(project.scenes) =>
              Cardinality(FrameDirs) = Len(project.scenes)

C6_Witness ==
    /\ AfterSetup /\ k = 2
    /\ last_call.before = disk
    /\ last_call.before # disk0
    /\ Len(project.scenes) = 2
    /\ Cardinality(FrameDirs) = 2

\* ------------------------------------------------- claims: export branches
OneSceneExport ==
    /\ entry = "export" /\ project # NoProject
    /\ Len(project.scenes) = 1
TookMultiPath == \E n \in DOMAIN spawned : spawned[n].op = "concat"
TookSinglePath == spawned # <<>> /\ spawned[1].output = output_path
\* the content one encoding of the scene's frames has, with the audio option
OneSceneVideo ==
    Video(<<[frames |-> frames_pattern(project, project.scenes[1]),
             start |-> project.scenes[1].frame_start,
             fps |-> fps_of(project)]>>, args.audio)

\* C8: for a project with exactly one scene, the single-scene branch and the
\* multi-scene branch run over that one scene leave the same content at the
\* output path (the scene's one clip with the audio option) and end with the
\* same exit status: 0 when every encoder exits 0, else the failing
\* encoder's exit code.
C8_OneScenePathsAgree ==
    (OneSceneExport /\ pc = "done" /\ spawned # <<>>) =>
        /\ (exit_code = 0) <=> (\A n \in DOMAIN spawned : spawned[n].rc = 0)
        /\ exit_code # 0 => exit_code = spawned[Len(spawned)].rc
        /\ exit_code = 0 =>
              /\ IsVideo(disk, output_path)
              /\ disk.files[output_path] = OneSceneVideo
              /\ TookSinglePath \/ TookMultiPath

C8_Witness ==
    /\ OneSceneExport /\ pc = "done" /\ exit_code = 0
    /\ TookMultiPath
    /\ Len(spawned) = 3
    /\ args.audio # NoPath
    /\ Get(movie_config(project), "fps", DefaultFps) # DefaultFps

\* --------------------------------------------------- claims: concatenation
AfterConcat ==
    entry = "compositor" /\ last_call # NoCall /\ last_call.fn = "concatenate_videos"

\* C7: concatenate_videos preserves input order: the manifest handed to the
\* encoder lists exactly the given paths, one entry each, in the order of the
\* input sequence, and the output plays the inputs' content in that order.
C7_ConcatKeepsOrder ==
    AfterConcat =>
        LET lines == last_spawn.manifest.lines
            paths == last_call.video_paths
        IN /\ last_spawn.cmd.op = "concat"
           /\ last_spawn.cmd.input = concat_file(last_call.output_path)
           /\ Len(lines) = Len(paths)
           /\ \A n \in DOMAIN paths :
                 lines[n].directive = "file" /\ lines[n].path = paths[n]
           /\ last_spawn.rc = 0 =>
                 /\ IsVideo(disk, last_call.output_path)
                 /\ Len(disk.files[last_call.output_path].clips) = Len(paths)
                 /\ \A n \in DOMAIN paths :
                       disk.files[last_call.output_path].clips[n]
                          = last_call.before.files[paths[n]].clips[1]

C7_Witness ==
    /\ AfterConcat
    /\ last_call.video_paths = <<PoolVideo(2), PoolVideo(1)>>
    /\ last_spawn.rc = 0
    /\ IsVideo(disk, last_call.output_path)

\* ------------------------------------------------------- claims: renderer
AfterRenderCall ==
    entry = "renderer" /\ last_call # NoCall
    /\ last_call.fn \in {"render_scene", "render_frame"}

\* C9: render_frame(blend_file, output_path, frame, config) is render_scene
\* with frame_start = frame_end = frame: one renderer invocation over the
\* range [frame, frame] with the same blend file, output and settings, whose
\* exit code it returns, so that exactly one frame is rendered.
C9_RenderFrameIsOneFrame ==
    (AfterRenderCall /\ last_call.fn = "render_frame" /\ last_call.blend_existed) =>
        LET frame == last_call.frame_start
            cmd == last_spawn.cmd
        IN /\ Len(spawned) = last_call.spawned_before + 1
           /\ cmd.tool = "blender" /\ cmd.background /\ cmd.render_anim
           /\ cmd.blend = last_call.blend_file
           /\ cmd.script.frame_start = frame /\ cmd.script.frame_end = frame
           /\ cmd.script.filepath = RenderOutput
           /\ cmd.script.settings
                 = _build_render_script(RenderOutput, frame, frame,
                                        last_call.render_config).settings
           /\ result = last_spawn.rc
           /\ last_spawn.rc = 0 =>
                 disk.files[RenderOutput] = [kind |-> "frames", first |-> frame, last |-> frame]

C9_Witness ==
    /\ AfterRenderCall /\ last_call.fn = "render_frame" /\ last_call.blend_existed
    /\ last_call.frame_start = MaxFrame
    /\ last_call.render_config # EmptyMap
    /\ last_spawn.rc = 0
    /\ IsFile(disk, RenderOutput)

\* C10: if the blend file given to render_scene does not exist, render_scene
\* raises the blend-file-not-found error and spawns no renderer child; a
\* renderer child is only ever spawned for a blend file that was found.
C10_MissingBlendNoSpawn ==
    AfterRenderCall =>
        /\ ~last_call.blend_existed =>
              /\ uncaught
              /\ result = NoExit
              /\ Len(spawned) = last_call.spawned_before
              /\ disk = last_call.before
        /\ Len(spawned) > last_call.spawned_before => last_call.blend_existed

C10_Witness ==
    /\ AfterRenderCall /\ last_call.fn = "render_scene"
    /\ ~last_call.blend_existed
    /\ uncaught
    /\ last_call.spawned_before = 1
    /\ Len(spawned) = 1

\* ------------------------------------------------------ claims: exit codes
Cli == {"build", "batch", "export"}
AllChildrenOk == \A n \in DOMAIN spawned : spawned[n].rc = 0
LastChildFailed == spawned # <<>> /\ spawned[Len(spawned)].rc # 0
Loaded == attempted # <<>> /\ attempted[Len(attempted)].fate # "load_error"
\* everything the entry point was asked to do was done and nothing failed
FullSuccess ==
    /\ raised = <<>>
    /\ CASE entry = "build" ->
              /\ Loaded /\ errors = <<>>
              /\ \/ args.dry_run
                 \/ /\ Len(spawned) = Len(scenes_to_render)
                    /\ AllChildrenOk
         [] entry = "export" ->
              /\ Loaded /\ spawned # <<>> /\ AllChildrenOk
              /\ IsVideo(disk, output_path)
         [] entry = "batch" ->
              /\ definitions # <<>>
              /\ \A j \in DOMAIN definitions : ProjectSucceeded(j)
         [] OTHER -> FALSE

\* C11: each entry point exits 0 exactly on full success and non-zero on any
\* failure; when build or export stops because a renderer or encoder child
\* returned a non-zero code the exit code is that child's code, and every
\* other failure yields exit code 1.
C11_ExitCodes ==
    (entry \in Cli /\ pc = "done") =>
        /\ (exit_code = 0) <=> FullSuccess
        /\ exit_code # 0 =>
              exit_code = IF entry \in {"build", "export"} /\ LastChildFailed
                          THEN spawned[Len(spawned)].rc ELSE 1

C11_Witness ==
    /\ entry = "build" /\ pc = "done"
    /\ Len(spawned) = 2
    /\ spawned[1].rc = 0 /\ spawned[2].rc = 2
    /\ exit_code = 2

\* ------------------------------------------- claims: scenes within a batch
\* the renderer children of the j-th project among the first n spawned
SpawnedBefore(j, n) == {m \in 1..n : spawned[m].project = j}

\* C12: within one project of a batch run the scenes are rendered one at a
\* time in definition order, and at the first scene whose renderer returns
\* a non-zero exit code the project is aborted: no later scene of it is
\* rendered and the project is recorded as failed, never as successful.
C12_FirstSceneFailureAborts ==
    entry = "batch" =>
        \A n \in DOMAIN spawned :
            LET j == spawned[n].project IN
            /\ spawned[n].tool = "blender"
            /\ spawned[n].scene = Cardinality(SpawnedBefore(j, n))
            /\ j = i => spawned[n].output =
                  SceneRenderCmd(project, project.scenes[spawned[n].scene],
                                 render_config).output
            /\ spawned[n].rc # 0 =>
                  /\ \A m \in DOMAIN spawned : m > n => spawned[m].project # j
                  /\ ProjectFailed(j)
                  /\ \A f \in DOMAIN successful_projects :
                        successful_projects[f] # definitions[j]
                  /\ Cardinality({f \in DOMAIN failed_projects :
                                    failed_projects[f][1] = definitions[j]}) = 1

C12_Witness ==
    /\ entry = "batch" /\ pc = "done"
    /\ Len(project.scenes) = 2
    /\ project.scenes[1].name # project.scenes[2].name
    /\ Len(spawned) = 1 /\ spawned[1].rc # 0
    /\ ProjectFailed(1)
    /\ successful_projects = <<>>

\* --------------------------------- claims: projects that fail before setup
FailedEarly(j) ==
    j \in DOMAIN attempted /\ attempted[j].fate \in {"load_error", "invalid"}
FailedRecords(j) ==
    {f \in DOMAIN failed_projects : failed_projects[f][1] = definitions[j]}
NothingCreatedFor(j) ==
    /\ \A p \in disk.dirs \ disk0.dirs : ~Under(p, ProjectDirOf(j))
    /\ \A p \in (DOMAIN disk.files) \ (DOMAIN disk0.files) : ~Under(p, ProjectDirOf(j))

\* C13: a batch project that fails to load or to validate is recorded as
\* failed exactly once, no output directory is created for it and no
\* renderer is invoked for it; with continue_on_error the projects after
\* it are still processed.
C13_EarlyFailureLeavesNoTrace ==
    entry = "batch" =>
        \A j \in DOMAIN definitions :
            FailedEarly(j) =>
                /\ Cardinality(FailedRecords(j)) = 1
                /\ \A f \in FailedRecords(j) :
                      attempted[j].fate = "invalid" =>
                          failed_projects[f][2] = "Validation failed"
                /\ \A f \in DOMAIN successful_projects :
                      successful_projects[f] # definitions[j]
                /\ NothingCreatedFor(j)
                /\ SpawnedFor(j) = {}
                /\ (args.continue_on_error /\ pc = "done") =>
                      Len(attempted) = Len(definitions)

C13_Witness ==
    /\ entry = "batch" /\ pc = "done" /\ args.continue_on_error
    /\ Len(definitions) = 2
    /\ FailedEarly(1) /\ attempted[1].fate = "invalid"
    /\ ProjectSucceeded(2)
    /\ SpawnedFor(2) # {}

\* ------------------------------------------ claims: setup before rendering
\* setup_output_directories has completed for the current project
SetupDone == \A dir \in SceneFrameDirs \cup {FinalDir} : HasMarker(dir)
RendererInvoked == Len(spawned') = Len(spawned) + 1 /\ last_spawn'.cmd.tool = "blender"

\* C14: in build and in batch, when the renderer is invoked for a scene of
\* a project, setup_output_directories has already completed for that
\* project: every scene's frames directory and the parent directory of the
\* final output exist (each with its marker file).
C14_SetupBeforeRender ==
    [][(entry \in {"build", "batch"} /\ RendererInvoked) => SetupDone]_vars

C14_Witness ==
    /\ entry \in {"build", "batch"}
    /\ spawned # <<>> /\ last_spawn.cmd.tool = "blender"
    /\ Len(project.scenes) = 2
    /\ SetupDone
    /\ FinalDir \notin disk0.dirs
    /\ \E dir \in SceneFrameDirs : dir \notin disk0.dirs

\* ------------------------------------------------ claims: the manifest
\* C15: after every call of concatenate_videos, whether the encode
\* succeeded or failed, the manifest concat_list.txt no longer exists.
C15_ManifestRemoved ==
    AfterConcat => ~Exists(disk, concat_file(last_call.output_path))

\* what the code guarantees: the manifest is gone whenever the encoder ran
C15_ManifestRemovedAfterEncode ==
    (AfterConcat /\ last_spawn.rc # NoExit) =>
        ~Exists(disk, concat_file(last_call.output_path))

\* ------------------------------------------------ claims: absent presets
\* the preset named on the command line is absent from its document
PresetMissing ==
    \/ entry \in {"build", "batch"} /\ args.preset # Absent
                                    /\ LoadRenderPresetRaises(args.preset)
    \/ entry = "export" /\ LoadExportPresetRaises(args.codec)

\* C16: when a named render preset or codec preset is absent from its
\* document, the entry point fails with a non-zero exit, and no renderer or
\* encoder child process is ever spawned.
C16_MissingPresetFails ==
    (entry \in Cli /\ PresetMissing) =>
        /\ spawned = <<>>
        /\ pc = "done" => exit_code # 0

\* what the code guarantees: the same, outside a dry run of build
C16_MissingPresetFailsUnlessDryRun ==
    (entry \in Cli /\ PresetMissing) =>
        /\ spawned = <<>>
        /\ (pc = "done" /\ ~(entry = "build" /\ args.dry_run)) => exit_code # 0

\* a run that reaches the lookup of the absent preset
C16_LookupReached ==
    /\ entry \in Cli /\ PresetMissing /\ pc = "done"
    /\ raised = <<"ValueError">>
    /\ exit_code = 1 /\ spawned = <<>>

\* ------------------------------------------- claims: errors leaving main
\* C17: every CLI entry point catches any error raised after argument
\* parsing and returns a non-zero exit code instead of letting the error
\* escape main.
C17_NoErrorEscapesMain ==
    entry \in Cli =>
        /\ ~uncaught
        /\ (raised # <<>> /\ pc = "done") => exit_code # 0

\* what the code guarantees: build and export catch every error
C17_BuildAndExportCatch ==
    entry \in {"build", "export"} =>
        /\ ~uncaught
        /\ (raised # <<>> /\ pc = "done") => exit_code = 1

\* ----------------------------------------------------- claims: discovery
Discovered == entry = "batch" /\ pc # "discover"
Given(n) == <<<<args.directories[n]>>>>
\* the definition files directly inside dir, and those one level below it
DirectDefs(dir) == {f \in DOMAIN disk.files : f = Join(dir, DefinitionName)}
NestedDefs(dir) ==
    {f \in DOMAIN disk.files :
        /\ Len(f) = Len(dir) + 2
        /\ SubSeq(f, 1, Len(dir)) = dir
        /\ f[Len(f)] = <<DefinitionName>>}
\* the directory's own definition when it has one, else those one level below
OwnOrNested(dir) == IF DirectDefs(dir) # {} THEN DirectDefs(dir) ELSE NestedDefs(dir)
Occurrences(f) == Cardinality({n \in DOMAIN definitions : definitions[n] = f})

\* C18: discovery returns, for each given directory, every definition file
\* directly inside that directory or exactly one level below it, and
\* nothing else; directories that do not exist contribute nothing.
C18_DirectAndNested ==
    Discovered =>
        Range(definitions) =
            UNION {DirectDefs(Given(n)) \cup NestedDefs(Given(n)) :
                   n \in DOMAIN args.directories}

\* C18 as the code has it: discovery returns, for each given directory, the
\* definition file directly inside it when there is one and otherwise every
\* definition file exactly one level below it, and nothing else;
\* directories that do not exist contribute nothing.
C18_OwnElseNested ==
    Discovered =>
        /\ \A f \in DOMAIN disk.files \cup Range(definitions) :
              Occurrences(f) =
                  Cardinality({n \in DOMAIN args.directories : f \in OwnOrNested(Given(n))})
        /\ \A n \in DOMAIN args.directories :
              ~Exists(disk, Given(n)) => OwnOrNested(Given(n)) = {}

C18_Witness ==
    /\ Discovered
    /\ args.directories = <<"d2", "d1">>
    /\ ~Exists(disk, Given(1))
    /\ DirectDefs(Given(2)) # {} /\ NestedDefs(Given(2)) # {}
    /\ definitions = <<Join(Given(2), DefinitionName)>>

\* ----------------------------------------------------- claims: no retry
\* the step a child was spawned for
StepOf(n) == <<spawned[n].tool, spawned[n].op, spawned[n].project, spawned[n].scene>>

\* C19: nothing is retried: the renderer is invoked at most once per scene
\* of a project attempt, every encoder step runs at most once, and a
\* non-zero child exit is propagated at once: in build and export the run
\* ends with that exit code and spawns nothing more, in batch the project
\* is failed and nothing more is spawned for it.
C19_NoRetry ==
    entry \in Cli =>
        /\ \A m, n \in DOMAIN spawned : StepOf(m) = StepOf(n) => m = n
        /\ \A n \in DOMAIN spawned :
              spawned[n].rc # 0 =>
                  IF entry = "batch"
                  THEN /\ \A m \in DOMAIN spawned :
                            m > n => spawned[m].project # spawned[n].project
                       /\ ProjectFailed(spawned[n].project)
                  ELSE /\ n = Len(spawned)
                       /\ pc = "done"
                       /\ exit_code = spawned[n].rc

C19_Witness ==
    /\ entry = "export" /\ pc = "done"
    /\ Len(project.scenes) = 2
    /\ Len(spawned) = 2
    /\ spawned[1].rc = 0 /\ spawned[2].rc = 1
    /\ StepOf(2) = <<"ffmpeg", "frames_to_video", 1, 2>>
    /\ exit_code = 1

\* ------------------------------------------- claims: purity of validate
\* a step in which the caller's validate call returns
ValidateReturns ==
    entry = "project" /\ k' = k + 1 /\ last_call'.fn = "validate"
ErrorMessages == {ErrMissingMovie.msg, ErrNoScenes.msg, ErrBlendNotFound(NoPath).msg}

\* C20: validate is pure and never raises: it returns a list of error
\* strings and leaves the project's definition, its scene sequence and the
\* file system unchanged.
C20_ValidateIsPure ==
    [][ValidateReturns =>
          /\ project' = project
          /\ disk' = disk
          /\ raised' = raised /\ uncaught' = uncaught
          /\ \A n \in DOMAIN errors' : errors'[n].msg \in ErrorMessages
          /\ errors' = validate(disk', project')]_vars

C20_Witness ==
    /\ entry = "project" /\ last_call # NoCall /\ last_call.fn = "validate"
    /\ Len(errors) = 2
    /\ disk = last_call.before /\ disk # disk0
    /\ Len(project.scenes) = 2
    /\ raised = <<>> /\ ~uncaught

\* ------------------------------------- claims: classification of projects
FailedDefinitions == {failed_projects[f][1] : f \in DOMAIN failed_projects}
SuccessfulDefinitions == Range(successful_projects)
\* a step that records the current project as successful
RecordsSuccess == entry = "batch" /\ Len(successful_projects') = Len(successful_projects) + 1
\* the current project went through every step: loaded, validated with no
\* error, directories provisioned, every scene rendered with exit code 0
WentThroughAllSteps ==
    /\ Len(attempted) = i /\ attempted[i].definition = definitions[i]
    /\ attempted[i].fate = "loaded"
    /\ errors = <<>> /\ validate(disk, project) = <<>>
    /\ SetupDone
    /\ Cardinality(SpawnedFor(i)) = Len(project.scenes)
    /\ \A n \in SpawnedFor(i) : spawned[n].rc = 0 /\ spawned[n].tool = "blender"
    /\ \A m \in DOMAIN project.scenes : \E n \in SpawnedFor(i) : spawned[n].scene = m

\* the part of C21 the code guarantees: the steps before a success
C21_StepsBeforeSuccess ==
    [][RecordsSuccess =>
          /\ WentThroughAllSteps
          /\ successful_projects' = Append(successful_projects, definitions[i])
          /\ definitions[i] \notin FailedDefinitions]_vars

\* C21: in a batch run a project is recorded as successful only after it
\* was loaded, validated with zero errors, had its output directories
\* provisioned and had the renderer return 0 for every one of its scenes;
\* and a project never moves from failed to successful or from successful
\* to failed.
C21_SuccessIsFinal ==
    /\ C21_StepsBeforeSuccess
    /\ [](entry = "batch" => SuccessfulDefinitions \cap FailedDefinitions = {})

NoDuplicates(seq) == \A m, n \in DOMAIN seq : seq[m] = seq[n] => m = n
SummaryReached == entry = "batch" /\ pc = "done" /\ i > Len(definitions) /\ definitions # <<>>

\* C22: at every point of a batch run no project is in both the successful
\* and the failed collection nor twice in either, and when a run with
\* continue_on_error reaches the summary every discovered project is in
\* exactly one of them: successful + failed = discovered.
C22_ClassifiedOnce ==
    entry = "batch" =>
        /\ SuccessfulDefinitions \cap FailedDefinitions = {}
        /\ NoDuplicates(successful_projects)
        /\ NoDuplicates([f \in DOMAIN failed_projects |-> failed_projects[f][1]])
        /\ (args.continue_on_error /\ SummaryReached) =>
              /\ SuccessfulDefinitions \cup FailedDefinitions = Range(definitions)
              /\ Len(successful_projects) + Len(failed_projects) = Len(definitions)

\* what the code guarantees: the same for projects whose movie section is a mapping
C22_ClassifiedOnceIfMappings ==
    (entry = "batch" /\ \A j \in DOMAIN attempted : attempted[j].fate # "log_error") =>
        /\ SuccessfulDefinitions \cap FailedDefinitions = {}
        /\ NoDuplicates(successful_projects)
        /\ NoDuplicates([f \in DOMAIN failed_projects |-> failed_projects[f][1]])
        /\ (args.continue_on_error /\ SummaryReached) =>
              /\ SuccessfulDefinitions \cup FailedDefinitions = Range(definitions)
              /\ Len(successful_projects) + Len(failed_projects) = Len(definitions)

\* ------------------------------------------ claims: multi-scene export
\* the export took the branch for a number of scenes other than one
MultiSceneExport ==
    /\ entry = "export" /\ pc \in {"multi", "finalize", "report", "done"}
    /\ project # NoProject /\ ~MovieGetRaises(project)
    /\ Len(project.scenes) # 1
SceneVideos == [n \in DOMAIN project.scenes |-> temp_output(project, project.scenes[n])]

\* C23: in a multi-scene export the encoder steps run in the order
\* frames_to_video for each scene in definition order, then
\* concatenate_videos over the per-scene videos in that order, then
\* add_audio if an audio file was given; at the first step with a non-zero
\* exit code the export stops with that code and no later step is invoked.
C23_ExportStepOrder ==
    MultiSceneExport =>
        LET N == Len(project.scenes) IN
        /\ Len(spawned) <= N + 1 + (IF args.audio # NoPath THEN 1 ELSE 0)
        /\ \A n \in DOMAIN spawned :
              /\ spawned[n].tool = "ffmpeg"
              /\ n <= N => /\ spawned[n].op = "frames_to_video"
                           /\ spawned[n].scene = n
                           /\ spawned[n].output = SceneVideos[n]
              /\ n = N + 1 => /\ spawned[n].op = "concat"
                              /\ temp_videos = SceneVideos
                              /\ spawned[n].output = temp_concatenated(output_path)
                              /\ n = Len(spawned) =>
                                    last_spawn.manifest = ConcatManifest(SceneVideos)
              /\ n = N + 2 => /\ spawned[n].op = "add_audio"
                              /\ spawned[n].output = output_path
              /\ spawned[n].rc # 0 => /\ n = Len(spawned)
                                      /\ pc = "done" /\ exit_code = spawned[n].rc
        /\ (pc = "done" /\ exit_code = 0) =>
              Len(spawned) = N + 1 + (IF args.audio # NoPath THEN 1 ELSE 0)

C23_Witness ==
    /\ MultiSceneExport /\ pc = "done"
    /\ Len(project.scenes) = 2 /\ args.audio # NoPath
    /\ Len(spawned) = 3
    /\ spawned[1].rc = 0 /\ spawned[2].rc = 0
    /\ spawned[3].op = "concat" /\ spawned[3].rc = 2
    /\ exit_code = 2

\* the temporary files of a multi-scene export
TemporaryFiles ==
    Range(SceneVideos) \cup {temp_concatenated(output_path),
                             concat_file(temp_concatenated(output_path))}

C24_LeftoversOnFailure ==
    /\ MultiSceneExport /\ pc = "done" /\ exit_code # 0
    /\ \E f \in TemporaryFiles : Exists(disk, f)

\* ------------------------------------------------ claims: render script
ScriptBuilt == entry = "script" /\ last_call # NoCall
\* the settings of the script that carry the given option
DirectivesFor(script, opt) == {n \in DOMAIN script.settings : script.settings[n].opt = opt}
\* one directive for opt, with value val, exactly when cond holds
SetsExactlyWhen(script, opt, cond, val) ==
    IF cond THEN /\ Cardinality(DirectivesFor(script, opt)) = 1
                 /\ ScriptValue(script, opt) = val
    ELSE DirectivesFor(script, opt) = {}
KnownOptions ==
    {"render.engine", "cycles.samples", "render.resolution_percentage",
     "cycles.use_denoising", "compute_device_type", "cycles.device",
     "image_settings.file_format"}

\* C25: the script built for a renderer invocation always sets the frame
\* range [frame_start, frame_end] and the output path, and holds a directive
\* for a render option exactly when the config has it: engine, samples,
\* resolution_percentage and format when the key is present, denoising only
\* when its value is true, the GPU device switch only when device is "GPU";
\* any other key adds no directive and raises no error.
C25_ScriptFollowsConfig ==
    ScriptBuilt =>
        LET config == last_call.render_config
            script == last_call.script
        IN /\ script.frame_start = last_call.frame_start
           /\ script.frame_end = last_call.frame_end
           /\ script.filepath = RenderOutput
           /\ SetsExactlyWhen(script, "render.engine", Has(config, "engine"),
                              Get(config, "engine", Absent))
           /\ SetsExactlyWhen(script, "cycles.samples", Has(config, "samples"),
                              Get(config, "samples", Absent))
           /\ SetsExactlyWhen(script, "render.resolution_percentage",
                              Has(config, "resolution_percentage"),
                              Get(config, "resolution_percentage", Absent))
           /\ SetsExactlyWhen(script, "image_settings.file_format", Has(config, "format"),
                              Get(config, "format", Absent))
           /\ SetsExactlyWhen(script, "cycles.use_denoising",
                              Get(config, "denoising", "False") = "True", "True")
           /\ SetsExactlyWhen(script, "compute_device_type",
                              Get(config, "device", Absent) = "GPU", "CUDA")
           /\ SetsExactlyWhen(script, "cycles.device",
                              Get(config, "device", Absent) = "GPU", "GPU")
           /\ \A n \in DOMAIN script.settings : script.settings[n].opt \in KnownOptions
           /\ raised = <<>> /\ ~uncaught

C25_Witness ==
    /\ ScriptBuilt
    /\ DOMAIN last_call.render_config = ConfigKeys
    /\ last_call.render_config["denoising"] = "False"
    /\ last_call.render_config["device"] = "GPU"
    /\ last_call.frame_start = 1 /\ last_call.frame_end = MaxFrame
    /\ Len(last_call.script.settings) = 6

\* --------------------------------------------- claims: preset precedence
\* the script option a render-config key is written to
OptionOf ==
    "engine" :> "render.engine" @@ "samples" :> "cycles.samples"
    @@ "resolution_percentage" :> "render.resolution_percentage"
    @@ "device" :> "cycles.device" @@ "format" :> "image_settings.file_format"
PresetLoaded ==
    entry \in {"build", "batch"} /\ args.preset # Absent
    /\ ~LoadRenderPresetRaises(args.preset)

\* C26: when a render preset is loaded, every key present in both the
\* preset and the movie-level render defaults reaches the renderer with the
\* preset value, and every movie-level key absent from the preset reaches
\* it unchanged.
C26_PresetOverMovie ==
    [][(PresetLoaded /\ RendererInvoked) =>
          LET preset == load_render_preset(args.preset)
              movie == render_config_of(project)
              script == last_spawn'.cmd.script
          IN /\ \A key \in (DOMAIN preset) \cap (DOMAIN movie) :
                   /\ render_config[key] = preset[key]
                   /\ key \in DOMAIN OptionOf =>
                         ScriptValue(script, OptionOf[key]) = preset[key]
             /\ \A key \in (DOMAIN movie) \ (DOMAIN preset) :
                   /\ render_config[key] = movie[key]
                   /\ key \in DOMAIN OptionOf =>
                         ScriptValue(script, OptionOf[key]) = movie[key]]_vars

C26_Witness ==
    /\ PresetLoaded /\ spawned # <<>>
    /\ render_config_of(project) = ("samples" :> "128" @@ "engine" :> "CYCLES")
    /\ load_render_preset(args.preset)["samples"] = "32"
    /\ ScriptValue(last_spawn.cmd.script, "cycles.samples") = "32"
    /\ ScriptValue(last_spawn.cmd.script, "render.engine") = "CYCLES"

\* --------------------------------------- claims: no leak between projects
\* the config a batch of this project alone would use
ConfigAlone(proj) ==
    IF args.preset # Absent THEN Update(render_config_of(proj), load_render_preset(args.preset))
    ELSE render_config_of(proj)
PresetStepDone == entry = "batch" /\ i >= 1

\* C27: computing the effective render config of a project leaves the
\* loaded preset override and the project's own render mapping unchanged,
\* and the config used for any project of a batch is the one that project
\* would get if it were the only one processed.
C27_NoLeakBetweenProjects ==
    /\ [][(entry = "batch" /\ pc = "setup") =>
             /\ render_config_override' = render_config_override
             /\ project' = project
             /\ render_config' = ConfigAlone(project)]_vars
    /\ [][(entry = "batch" /\ RendererInvoked) =>
             /\ render_config = ConfigAlone(project)
             /\ last_spawn'.cmd.script.settings =
                   _build_render_script(NoPath, 1, 1, ConfigAlone(project)).settings]_vars
    /\ [](PresetStepDone => render_config_override = LoadedPreset)

C27_Witness ==
    /\ entry = "batch" /\ Len(definitions) = 2 /\ i = 2
    /\ SpawnedFor(1) # {} /\ SpawnedFor(2) # {}
    /\ args.preset # Absent
    /\ render_config_of(project) = EmptyMap
    /\ render_config = LoadedPreset
    /\ render_config_override = LoadedPreset

\* ------------------------------------------------------- claims: dry run
DryRunBuild == entry = "build" /\ args.dry_run
\* project.validate() has returned in this run of build
ValidationReturned ==
    /\ attempted # <<>> /\ attempted[Len(attempted)].fate = "loaded"
    /\ ~MovieGetRaises(project)
    /\ pc \notin {"load", "validate"}

\* C28: build with the dry-run option loads and validates the project and
\* never invokes the renderer: no child process is spawned, and once
\* validation has returned the run exits with 0 when it returned no errors
\* and with 1 when it returned errors.
C28_DryRunValidatesOnly ==
    DryRunBuild =>
        /\ spawned = <<>> /\ last_spawn = NoSpawn
        /\ pc \notin {"prepare", "render"}
        /\ (pc = "done" /\ ValidationReturned) =>
              /\ errors = validate(disk0, project)
              /\ exit_code = IF errors = <<>> THEN 0 ELSE 1
        /\ (pc = "done" /\ exit_code = 0) => ValidationReturned

C28_Witness ==
    /\ DryRunBuild /\ pc = "done" /\ ValidationReturned
    /\ errors = <<>> /\ exit_code = 0
    /\ disk # disk0 /\ spawned = <<>>

C28_InvalidSeen == DryRunBuild /\ pc = "done" /\ ValidationReturned /\ errors # <<>> /\ exit_code = 1

\* ---------------------------------------------------- claims: scene filter
FilteredBuild == entry = "build" /\ args.scene # Absent
ProjectLoaded == attempted # <<>> /\ attempted[Len(attempted)].fate = "loaded"
NoSceneNamed == ProjectLoaded /\ \A n \in DOMAIN project.scenes : project.scenes[n].name # args.scene
\* the renderer ran at most once, for the first scene named by the filter
OnlyFirstNamed ==
    /\ Len(spawned) <= 1
    /\ spawned # <<>> =>
          \E n \in DOMAIN project.scenes :
             /\ project.scenes[n].name = args.scene
             /\ \A m \in 1..(n - 1) : project.scenes[m].name # args.scene
             /\ last_spawn.cmd = SceneRenderCmd(project, project.scenes[n], render_config)

C29_SceneFilterUnlessDryRun ==
    FilteredBuild =>
        /\ OnlyFirstNamed
        /\ NoSceneNamed => (spawned = <<>> /\ ((pc = "done" /\ ~args.dry_run) => exit_code = 1))

\* a filtered build that renders the first of two scenes of the same name
C29_FirstOfTwoRendered ==
    /\ FilteredBuild /\ pc = "done" /\ exit_code = 0
    /\ Len(project.scenes) = 2
    /\ project.scenes[1].name = args.scene /\ project.scenes[2].name = args.scene
    /\ project.scenes[1] # project.scenes[2]
    /\ Len(spawned) = 1
    /\ last_spawn.cmd = SceneRenderCmd(project, project.scenes[1], render_config)

\* a filtered build that reaches the lookup of a name no scene has
C29_LookupReached ==
    /\ FilteredBuild /\ NoSceneNamed /\ ~args.dry_run /\ pc = "done"
    /\ scenes_to_render = <<NoScene>>
    /\ exit_code = 1 /\ spawned = <<>>

\* ------------------------------------------------- claims: termination
LoopEntered == entry = "batch" /\ i >= 1
\* the projects taken so far are the first discovered ones, in order
InDiscoveryOrder ==
    /\ Len(attempted) <= Len(definitions)
    /\ \A n \in DOMAIN attempted : attempted[n].definition = definitions[n]
EndsAtFirstFailure ==
    /\ ~args.continue_on_error
    /\ i >= 1 /\ i <= Len(definitions) /\ Len(attempted) = i
    /\ attempted[i].fate \in Failures
    /\ \A n \in 1..(i - 1) : attempted[n].fate = "rendered"
    /\ Len(failed_projects) = 1 /\ failed_projects[1][1] = definitions[i]
    /\ exit_code = 1
EndsWithSummary ==
    /\ SummaryReached
    /\ Len(attempted) = Len(definitions)
    /\ \A n \in DOMAIN attempted : attempted[n].fate \in Failures \cup {"rendered"}
    /\ args.continue_on_error \/ failed_projects = <<>>
    /\ exit_code = IF failed_projects = <<>> THEN 0 ELSE 1

\* C30: with every child process exiting, every batch run terminates; it
\* takes the discovered definitions in discovery order, each at most once,
\* never goes back to an earlier one, and ends at the first failure when
\* continue_on_error is unset or after the last project with the summary.
C30_BatchTerminates ==
    /\ <>(pc = "done")
    /\ [](entry = "batch" => InDiscoveryOrder)
    /\ [][entry = "batch" =>
             /\ i' >= i /\ i' <= i + 1
             /\ Len(attempted') >= Len(attempted) /\ Len(attempted') <= Len(attempted) + 1
             /\ \A n \in DOMAIN attempted : attempted'[n].definition = attempted[n].definition
             /\ (pc = "done" => pc' = "done")]_vars
    /\ []((LoopEntered /\ pc = "done") => (EndsAtFirstFailure \/ EndsWithSummary))

\* a run told to go on that fails its first project and renders its second
C30_Witness ==
    /\ entry = "batch" /\ args.continue_on_error /\ pc = "done"
    /\ Len(definitions) = 2 /\ Len(attempted) = 2
    /\ attempted[1].fate \in Failures /\ attempted[2].fate = "rendered"
    /\ EndsWithSummary /\ exit_code = 1

\* a run that stops at the failure of its first project of two
C30_StoppedEarly ==
    /\ entry = "batch" /\ pc = "done" /\ Len(definitions) = 2
    /\ EndsAtFirstFailure /\ i = 1 /\ Len(attempted) = 1

====
